---- MODULE Spec2Model ----
(***************************************************************************)
(* A model of the OCR extraction pipeline of ocr-go-prototype:             *)
(*   ocr.Extract  ->  engine.VisionEngine.ProcessPDF / Process             *)
(*                ->  client.Generate / Ping, utils.ParseAndValidateJSON   *)
(*                ->  mergeResults, buildOCRResult, utils.ValidateOCRResult *)
(*                                                                         *)
(* Conventions.                                                            *)
(*  - A Go pointer, map or slice that may be nil is a sequence of length   *)
(*    at most one: <<>> is nil, <<v>> is the non-nil value v.              *)
(*  - A Go string that the code only copies or compares is a TLA+ string;  *)
(*    a string the code scans (a model reply) is a sequence of one         *)
(*    character strings, where a capital letter stands for a whole list    *)
(*    of JSON members (see Payload).                                       *)
(*  - A float64 confidence is an integer number of tenths: 10 is 1.0.      *)
(*  - A Go error is a record [msg, is, text]: msg the message segments     *)
(*    from the outermost wrapper inwards, is the set of errors that        *)
(*    errors.Is finds along the %w chain, text the reply text a JSON       *)
(*    syntax error complains about (<<>> otherwise).                       *)
(***************************************************************************)
EXTENDS Integers, Sequences, FiniteSets, TLC

(***************************************************************************)
(* Bounds of the model.                                                    *)
(***************************************************************************)
\* The largest number of pages PDFToImages may return.
MaxPages == 3

Nil == <<>>
Some(v) == <<v>>
IsNil(p) == p = <<>>
Deref(p) == p[1]

(***************************************************************************)
(* strings.* helpers over character sequences.                             *)
(***************************************************************************)
IsSpace(c) == c \in {" ", "\n", "\t", "\r"}

RECURSIVE TrimLeft(_)
TrimLeft(s) ==
    IF s # <<>> /\ IsSpace(Head(s)) THEN TrimLeft(Tail(s)) ELSE s

RECURSIVE TrimRight(_)
TrimRight(s) ==
    IF s # <<>> /\ IsSpace(s[Len(s)])
    THEN TrimRight(SubSeq(s, 1, Len(s) - 1))
    ELSE s

TrimSpace(s) == TrimRight(TrimLeft(s))

HasPrefix(s, p) == Len(s) >= Len(p) /\ SubSeq(s, 1, Len(p)) = p

HasSuffix(s, p) == Len(s) >= Len(p) /\ SubSeq(s, Len(s) - Len(p) + 1, Len(s)) = p

TrimPrefix(s, p) == IF HasPrefix(s, p) THEN SubSeq(s, Len(p) + 1, Len(s)) ELSE s

TrimSuffix(s, p) == IF HasSuffix(s, p) THEN SubSeq(s, 1, Len(s) - Len(p)) ELSE s

\* strings.Index for a one-character needle: the 0-based index, or -1.
Index(s, c) ==
    IF \E i \in 1..Len(s) : s[i] = c
    THEN (CHOOSE i \in 1..Len(s) : s[i] = c /\ \A j \in 1..(i - 1) : s[j] # c) - 1
    ELSE -1

\* strings.LastIndex for a one-character needle: the 0-based index, or -1.
LastIndex(s, c) ==
    IF \E i \in 1..Len(s) : s[i] = c
    THEN (CHOOSE i \in 1..Len(s) : s[i] = c /\ \A j \in (i + 1)..Len(s) : s[j] # c) - 1
    ELSE -1

\* The markdown fence markers. The backquote character is written "'" here,
\* since a TLA+ string cannot hold a backquote.
Fence == <<"'", "'", "'">>
FenceJSON == <<"'", "'", "'", "j", "s", "o", "n">>

\* A cleaner that leaves the closing fence in place.
CleanJSONResponseKeepsSuffix(raw) ==
    LET s0 == TrimSpace(raw)
        s1 == IF HasPrefix(s0, FenceJSON) THEN TrimPrefix(s0, FenceJSON)
              ELSE IF HasPrefix(s0, Fence) THEN TrimPrefix(s0, Fence)
              ELSE s0
        s3 == TrimSpace(s1)
        start == Index(s3, "{")
        end == LastIndex(s3, "}")
    IN  IF start # -1 /\ end # -1 /\ end > start
        THEN SubSeq(s3, start + 1, end + 1)
        ELSE s3

\* A cleaner without the second TrimSpace.
CleanJSONResponseNoSecondTrim(raw) ==
    LET s0 == TrimSpace(raw)
        s1 == IF HasPrefix(s0, FenceJSON) THEN TrimPrefix(s0, FenceJSON)
              ELSE IF HasPrefix(s0, Fence) THEN TrimPrefix(s0, Fence)
              ELSE s0
        s3 == TrimSuffix(s1, Fence)
        start == Index(s3, "{")
        end == LastIndex(s3, "}")
    IN  IF start # -1 /\ end # -1 /\ end > start
        THEN SubSeq(s3, start + 1, end + 1)
        ELSE s3

\* utils.CleanJSONResponse
CleanJSONResponse(raw) ==
    LET s0 == TrimSpace(raw)
        s1 == IF HasPrefix(s0, FenceJSON) THEN TrimPrefix(s0, FenceJSON)
              ELSE IF HasPrefix(s0, Fence) THEN TrimPrefix(s0, Fence)
              ELSE s0
        s2 == TrimSuffix(s1, Fence)
        s3 == TrimSpace(s2)
        start == Index(s3, "{")
        end == LastIndex(s3, "}")
    IN  IF start # -1 /\ end # -1 /\ end > start
        THEN SubSeq(s3, start + 1, end + 1)
        ELSE s3

(***************************************************************************)
(* Go errors.                                                              *)
(***************************************************************************)
\* errors.New(m), or fmt.Errorf(m) without a wrapped error
NewError(m) == [msg |-> <<m>>, is |-> {}, text |-> <<>>]

\* a sentinel error variable S = errors.New(...)
Sentinel(S) == [msg |-> <<S>>, is |-> {S}, text |-> <<>>]

\* fmt.Errorf(m + ": %w", e): e stays on the Unwrap chain.
WrapW(m, e) == [msg |-> <<m>> \o e.msg, is |-> e.is, text |-> e.text]

\* fmt.Errorf("%w: %v", S, e): only S stays on the Unwrap chain, e is
\* flattened into the message.
WrapSentinelV(S, e) == [msg |-> <<S>> \o e.msg, is |-> {S}, text |-> e.text]

\* errors.Is(e, S)
ErrorsIs(e, S) == S \in e.is

\* NewOCRError(op, requestID, err)
NewOCRError(op, rid, e) == [Op |-> op, RequestID |-> rid, Err |-> e]

(***************************************************************************)
(* models: the forgiving intermediate structure and the strict result.     *)
(***************************************************************************)
ValidDocumentTypes == {"invoice", "receipt", "id_card", "contract", "unknown"}
ValidColorModes == {"RGB", "Grayscale", "CMYK", "Unknown"}

\* The zero value of models.OllamaVisionResponse: every section absent.
ZeroVisionResponse ==
    [Metadata |-> Nil, Text |-> Nil, StructuredData |-> Nil,
     Summary |-> Nil, Image |-> Nil]

Box1 == [X |-> 1, Y |-> 2, Width |-> 3, Height |-> 4]
Table1 == [Headers |-> <<"h1">>, Rows |-> << <<"c1">> >>]
Table2 == [Headers |-> <<"h2">>, Rows |-> << <<"c2">>, <<"c3">> >>]

\* The member lists a reply may carry between its braces, as json.Unmarshal
\* decodes them into models.OllamaVisionResponse.
\*   A: a well-formed reply with every section.
\*   B: a reply that breaks the schema: unknown document type, confidences
\*      outside [0,1], a line without text, "tables" omitted, an image
\*      section with a zero width, "dpi": 0 and an unknown color mode.
\*   C: a reply without metadata and text, with an empty key_value_pairs
\*      object and an image section that asserts a height and a color mode.
PayloadNames == {"A", "B", "C"}
Payload(p) ==
    CASE p = "A" ->
           [Metadata |-> Some([Language |-> Some("en"), DocumentType |-> "invoice",
                               ConfidenceScore |-> 9]),
            Text |-> Some([Raw |-> "alpha",
                           Lines |-> Some(<<[Text |-> "alpha", BoundingBox |-> Some(Box1),
                                             Confidence |-> 8]>>)]),
            StructuredData |-> Some([KeyValuePairs |-> Some([k \in {"total"} |-> "10"]),
                                     Tables |-> Some(<<Table1>>)]),
            Summary |-> Some("sum-a"),
            Image |-> Nil]
      [] p = "B" ->
           [Metadata |-> Some([Language |-> Some("fr"), DocumentType |-> "memo",
                               ConfidenceScore |-> 15]),
            Text |-> Some([Raw |-> "beta",
                           Lines |-> Some(<<[Text |-> "", BoundingBox |-> Nil,
                                             Confidence |-> -5],
                                            [Text |-> "beta", BoundingBox |-> Some(Box1),
                                             Confidence |-> 20]>>)]),
            StructuredData |-> Some([KeyValuePairs |->
                                        Some([k \in {"total", "date"} |-> "20"]),
                                     Tables |-> Nil]),
            Summary |-> Nil,
            Image |-> Some([Width |-> 0, Height |-> 7, DPI |-> Some(0),
                            ColorMode |-> "sepia"])]
      [] p = "C" ->
           [Metadata |-> Nil,
            Text |-> Nil,
            StructuredData |-> Some([KeyValuePairs |-> Some(<<>>),
                                     Tables |-> Some(<<Table2>>)]),
            Summary |-> Some("sum-c"),
            Image |-> Some([Width |-> 0, Height |-> 9, DPI |-> Nil,
                            ColorMode |-> "CMYK"])]

RECURSIVE DropSpace(_)
DropSpace(s) ==
    IF s = <<>> THEN <<>>
    ELSE IF IsSpace(Head(s)) THEN DropSpace(Tail(s))
    ELSE <<Head(s)>> \o DropSpace(Tail(s))

\* A decoder that rejects an object without members.
UnmarshalRequireMembers(s) ==
    LET t == DropSpace(s)
    IN  IF Len(t) = 3 /\ t[1] = "{" /\ t[3] = "}" /\ t[2] \in PayloadNames
        THEN [ok |-> TRUE, resp |-> Payload(t[2]), err |-> Nil]
        ELSE [ok |-> FALSE, resp |-> Nil,
              err |-> Some([msg |-> <<"invalid JSON">>, is |-> {}, text |-> s])]

\* json.Unmarshal([]byte(s), &resp) on a zero resp: the JSON texts over the
\* model's alphabet are an object (empty, or holding one member list) and the
\* literal null, which decodes into a struct as a no-op; white space between
\* tokens is insignificant. Anything else is a syntax error.
Unmarshal(s) ==
    LET t == DropSpace(s)
    IN  IF t = <<"{", "}">> \/ TrimSpace(s) = <<"n", "u", "l", "l">>
        THEN [ok |-> TRUE, resp |-> ZeroVisionResponse, err |-> Nil]
        ELSE IF Len(t) = 3 /\ t[1] = "{" /\ t[3] = "}" /\ t[2] \in PayloadNames
        THEN [ok |-> TRUE, resp |-> Payload(t[2]), err |-> Nil]
        ELSE [ok |-> FALSE, resp |-> Nil,
              err |-> Some([msg |-> <<"invalid JSON">>, is |-> {}, text |-> s])]

\* utils.ParseAndValidateJSON
ParseAndValidateJSON(raw) ==
    LET u == Unmarshal(CleanJSONResponse(raw))
    IN  IF u.ok
        THEN [ok |-> TRUE, resp |-> u.resp, err |-> Nil]
        ELSE [ok |-> FALSE, resp |-> Nil,
              err |-> Some(WrapW("json unmarshal", Deref(u.err)))]

(***************************************************************************)
(* prompt.BuildOCRPrompt: the prompt as the sequence of the pieces the     *)
(* string builder receives.                                                *)
(***************************************************************************)
\* The text is cut so that every field name of the requested schema is a
\* token of its own, followed by the token ": " and the tokens of its value.
PromptLanguage(cfg) ==
    <<"\"language\"", ": ">>
    \o (IF cfg.WithLanguageDetection
        THEN <<"\"<detected ISO 639-1 language code or null if unknown>\",">>
        ELSE <<"null,">>)

PromptBoundingBox(cfg) ==
    IF cfg.WithBoundingBoxes
    THEN <<"\"bounding_box\"", ": ", "{", "\"x\": <estimated x coordinate>,",
           "\"y\": <estimated y coordinate>,", "\"width\": <estimated width>,",
           "\"height\": <estimated height>", "},">>
    ELSE <<"\"bounding_box\"", ": ", "null,">>

PromptConfidence(cfg) ==
    IF cfg.WithConfidenceScores
    THEN <<"\"confidence\"", ": ", "<float between 0.0 and 1.0>">>
    ELSE <<"\"confidence\"", ": ", "0.0">>

PromptStructuredData(cfg) ==
    IF cfg.WithStructuredExtraction
    THEN <<"\"structured_data\"", ": ", "{",
           "\"key_value_pairs\"", ": ", "{", "\"<key>\": \"<value>\"", "},",
           "\"tables\"", ": ", "[", "{",
           "\"headers\": [\"<column header 1>\", \"<column header 2>\"],",
           "\"rows\": [[\"<cell 1>\", \"<cell 2>\"]]", "}", "]", "},">>
    ELSE <<"\"structured_data\"", ": ", "{",
           "\"key_value_pairs\"", ": ", "{},",
           "\"tables\"", ": ", "[]", "},">>

\* A prompt that leaves the summary out when it is not asked for.
PromptSummaryDropped(cfg) ==
    IF cfg.WithSummary
    THEN <<"\"summary\"", ": ",
           "\"<brief natural language summary of the document content>\"">>
    ELSE <<>>

PromptSummary(cfg) ==
    IF cfg.WithSummary
    THEN <<"\"summary\"", ": ",
           "\"<brief natural language summary of the document content>\"">>
    ELSE <<"\"summary\"", ": ", "null">>

BuildOCRPrompt(cfg) ==
    <<"You are a precise OCR engine. ... CRITICAL INSTRUCTIONS: ... Respond ONLY with valid JSON. ...",
      "{", "\"metadata\"", ": ", "{">>
    \o PromptLanguage(cfg)
    \o <<"\"document_type\"", ": ",
         "\"<one of: invoice, receipt, id_card, contract, unknown>\",",
         "\"confidence_score\"", ": ",
         "<float between 0.0 and 1.0 representing overall OCR confidence>", "},",
         "\"text\"", ": ", "{",
         "\"raw\"", ": ", "\"<all extracted text as a single string>\",",
         "\"lines\"", ": ", "[", "{",
         "\"text\"", ": ", "\"<text content of this line>\",">>
    \o PromptBoundingBox(cfg)
    \o PromptConfidence(cfg)
    \o <<"}", "]", "},">>
    \o PromptStructuredData(cfg)
    \o PromptSummary(cfg)
    \o <<"}", "RULES: 1. ... 5.">>
    \o (IF cfg.WithBoundingBoxes THEN <<"6. Estimate bounding boxes ...">> ELSE <<>>)
    \o (IF cfg.WithLanguageDetection THEN <<"7. Detect the primary language ...">> ELSE <<>>)
    \o <<"Remember: Output ONLY the JSON object. Nothing else.">>

(***************************************************************************)
(* ocr.Config                                                              *)
(***************************************************************************)
\* ocr.DefaultConfig. Temperature counts tenths, Timeout seconds.
DefaultConfig ==
    [OllamaURL |-> "http://localhost:11434",
     Model |-> "llama3.2-vision",
     Timeout |-> 120,
     Temperature |-> 1,
     MaxFileSize |-> 50 * 1024 * 1024,
     MaxImageDimension |-> 8192,
     WithSummary |-> FALSE,
     WithLanguageDetection |-> TRUE,
     WithStructuredExtraction |-> TRUE,
     WithBoundingBoxes |-> TRUE,
     WithConfidenceScores |-> TRUE]

\* The five feature options WithSummary(b) ... WithConfidenceScores(b),
\* applied to c with the arguments in the record f.
ApplyFlagOptions(c, f) ==
    [c EXCEPT !.WithSummary = f.WithSummary,
              !.WithLanguageDetection = f.WithLanguageDetection,
              !.WithStructuredExtraction = f.WithStructuredExtraction,
              !.WithBoundingBoxes = f.WithBoundingBoxes,
              !.WithConfidenceScores = f.WithConfidenceScores]

\* The feature options, one by one.
WithSummary(c, enabled) == [c EXCEPT !.WithSummary = enabled]
WithLanguageDetection(c, enabled) == [c EXCEPT !.WithLanguageDetection = enabled]
WithStructuredExtraction(c, enabled) == [c EXCEPT !.WithStructuredExtraction = enabled]
WithBoundingBoxes(c, enabled) == [c EXCEPT !.WithBoundingBoxes = enabled]
WithConfidenceScores(c, enabled) == [c EXCEPT !.WithConfidenceScores = enabled]

\* The value options: an argument that is not valid leaves c as it is.
WithModel(c, model) == IF model # "" THEN [c EXCEPT !.Model = model] ELSE c
WithTimeout(c, d) == IF d > 0 THEN [c EXCEPT !.Timeout = d] ELSE c
WithOllamaURL(c, url) == IF url # "" THEN [c EXCEPT !.OllamaURL = url] ELSE c

\* A temperature option without the range test.
WithTemperatureUnchecked(c, t) == [c EXCEPT !.Temperature = t]

\* Temperatures count tenths: the range [0, 2] is 0..20.
WithTemperature(c, t) == IF t >= 0 /\ t <= 20 THEN [c EXCEPT !.Temperature = t] ELSE c
WithMaxFileSize(c, size) == IF size > 0 THEN [c EXCEPT !.MaxFileSize = size] ELSE c

AllFlagSets ==
    [WithSummary : BOOLEAN, WithLanguageDetection : BOOLEAN,
     WithStructuredExtraction : BOOLEAN, WithBoundingBoxes : BOOLEAN,
     WithConfidenceScores : BOOLEAN]

FlagNames == {"WithSummary", "WithLanguageDetection", "WithStructuredExtraction",
              "WithBoundingBoxes", "WithConfidenceScores"}

\* The flag arguments an Extract call is tried with: every flag enabled, any
\* single flag disabled (which includes the defaults), every flag disabled.
FlagSets ==
    {f \in AllFlagSets : Cardinality({n \in FlagNames : ~f[n]}) \in {0, 1, 5}}

(***************************************************************************)
(* engine.mergeResults                                                     *)
(***************************************************************************)
\* The elements of a slice that may be nil.
Elems(x) == IF IsNil(x) THEN <<>> ELSE Deref(x)

\* An append that puts the new elements in front.
GoAppendInFront(a, b) == IF Elems(b) = <<>> THEN a ELSE Some(Elems(b) \o Elems(a))

\* append(a, b...): nothing to append returns a itself (nil stays nil).
GoAppend(a, b) == IF Elems(b) = <<>> THEN a ELSE Some(Elems(a) \o Elems(b))

\* A copy that keeps the value dst already has for a key.
MapCopyKeepFirst(dst, src) ==
    LET m == IF IsNil(src) THEN <<>> ELSE Deref(src)
    IN  [k \in (DOMAIN dst) \cup (DOMAIN m) |-> IF k \in DOMAIN dst THEN dst[k] ELSE m[k]]

\* for k, v := range src { dst[k] = v } on a non-nil dst; ranging over a nil
\* map does nothing.
MapCopyInto(dst, src) ==
    LET m == IF IsNil(src) THEN <<>> ELSE Deref(src)
    IN  [k \in (DOMAIN dst) \cup (DOMAIN m) |-> IF k \in DOMAIN m THEN m[k] ELSE dst[k]]

\* strings.Join(parts, sep)
RECURSIVE Join(_, _)
Join(parts, sep) ==
    IF parts = <<>> THEN ""
    ELSE IF Len(parts) = 1 THEN parts[1]
    ELSE parts[1] \o sep \o Join(Tail(parts), sep)

\* A marker that numbers the pages from 0, by the loop index.
PagePrefixFromZero(n) == "--- Page " \o ToString(n - 1) \o " ---\n"

\* fmt.Sprintf("--- Page %d ---\n", n)
PagePrefix(n) == "--- Page " \o ToString(n) \o " ---\n"

\* A merge that assigns every page's summary, null or not.
MergeSummaryOverwrite(cur, s) == s

\* if r.VisionResponse.Summary != nil { merged.VisionResponse.Summary = ... }
MergeSummary(cur, s) == IF ~IsNil(s) THEN s ELSE cur

\* A merge loop that assigns the latency where the code adds it.
MergeStepLastLatency(acc, r, i) ==
    LET vr == r.VisionResponse
        m == acc.merged
        hasText == ~IsNil(vr.Text)
        hasSD == ~IsNil(vr.StructuredData)
        text1 == IF hasText
                 THEN [m.VisionResponse.Text EXCEPT
                          !.Lines = GoAppend(@, Deref(vr.Text).Lines)]
                 ELSE m.VisionResponse.Text
        sd1 == IF hasSD
               THEN [KeyValuePairs |->
                        MapCopyInto(m.VisionResponse.StructuredData.KeyValuePairs,
                                    Deref(vr.StructuredData).KeyValuePairs),
                     Tables |-> GoAppend(m.VisionResponse.StructuredData.Tables,
                                         Deref(vr.StructuredData).Tables)]
               ELSE m.VisionResponse.StructuredData
        sum1 == MergeSummary(m.VisionResponse.Summary, vr.Summary)
    IN  [merged |-> [m EXCEPT !.PromptTokens = @ + r.PromptTokens,
                              !.EvalTokens = @ + r.EvalTokens,
                              !.VisionResponse.Text = text1,
                              !.VisionResponse.StructuredData = sd1,
                              !.VisionResponse.Summary = sum1],
         rawParts |-> IF hasText
                      THEN Append(acc.rawParts, PagePrefix(i) \o Deref(vr.Text).Raw)
                      ELSE acc.rawParts,
         totalLatency |-> r.Latency]

\* One iteration of the merge loop, for the i-th result r (i counts from 1,
\* the code's i+1). acc holds merged, rawParts and totalLatency.
MergeStep(acc, r, i) ==
    LET vr == r.VisionResponse
        m == acc.merged
        hasText == ~IsNil(vr.Text)
        hasSD == ~IsNil(vr.StructuredData)
        text1 == IF hasText
                 THEN [m.VisionResponse.Text EXCEPT
                          !.Lines = GoAppend(@, Deref(vr.Text).Lines)]
                 ELSE m.VisionResponse.Text
        sd1 == IF hasSD
               THEN [KeyValuePairs |->
                        MapCopyInto(m.VisionResponse.StructuredData.KeyValuePairs,
                                    Deref(vr.StructuredData).KeyValuePairs),
                     Tables |-> GoAppend(m.VisionResponse.StructuredData.Tables,
                                         Deref(vr.StructuredData).Tables)]
               ELSE m.VisionResponse.StructuredData
        sum1 == MergeSummary(m.VisionResponse.Summary, vr.Summary)
    IN  [merged |-> [m EXCEPT !.PromptTokens = @ + r.PromptTokens,
                              !.EvalTokens = @ + r.EvalTokens,
                              !.VisionResponse.Text = text1,
                              !.VisionResponse.StructuredData = sd1,
                              !.VisionResponse.Summary = sum1],
         rawParts |-> IF hasText
                      THEN Append(acc.rawParts, PagePrefix(i) \o Deref(vr.Text).Raw)
                      ELSE acc.rawParts,
         totalLatency |-> acc.totalLatency + r.Latency]

RECURSIVE MergeLoop(_, _, _)
MergeLoop(acc, results, i) ==
    IF i > Len(results) THEN acc
    ELSE MergeLoop(MergeStep(acc, results[i], i), results, i + 1)

\* A merge that takes the metadata of the last page.
MergedInitLastPage(results) ==
    [VisionResponse |->
        [Metadata |-> results[Len(results)].VisionResponse.Metadata,
         Text |-> [Raw |-> "", Lines |-> Nil],
         StructuredData |-> [KeyValuePairs |-> <<>>, Tables |-> Nil],
         Summary |-> Nil,
         Image |-> Nil],
     Model |-> results[1].Model,
     PromptTokens |-> 0,
     EvalTokens |-> 0,
     Latency |-> 0]

\* merged := &ProcessResult{...}: the metadata and the model of the first
\* result, empty text and structured data, no summary, no image section.
MergedInit(results) ==
    [VisionResponse |->
        [Metadata |-> results[1].VisionResponse.Metadata,
         Text |-> [Raw |-> "", Lines |-> Nil],
         StructuredData |-> [KeyValuePairs |-> <<>>, Tables |-> Nil],
         Summary |-> Nil,
         Image |-> Nil],
     Model |-> results[1].Model,
     PromptTokens |-> 0,
     EvalTokens |-> 0,
     Latency |-> 0]

\* A merge that sends a single result through the loop as well.
mergeResultsNoShortcut(results) ==
    IF Len(results) = 0 THEN Nil
    ELSE
      LET init == [merged |-> MergedInit(results),
                   rawParts |-> <<>>,
                   totalLatency |-> 0]
          fin == MergeLoop(init, results, 1)
          mvr == fin.merged.VisionResponse
      IN  Some([fin.merged EXCEPT
                  !.VisionResponse =
                      [Metadata |-> mvr.Metadata,
                       Text |-> Some([Raw |-> Join(fin.rawParts, "\n"),
                                      Lines |-> mvr.Text.Lines]),
                       StructuredData |->
                           Some([KeyValuePairs |-> Some(mvr.StructuredData.KeyValuePairs),
                                 Tables |-> mvr.StructuredData.Tables]),
                       Summary |-> mvr.Summary,
                       Image |-> Nil],
                  !.Latency = fin.totalLatency])

\* mergeResults(results): nil for no results, the element itself for one,
\* else the merged result. Inside merged, Text and StructuredData are the
\* structs the code allocates (never nil), KeyValuePairs the map it makes.
mergeResults(results) ==
    IF Len(results) = 0 THEN Nil
    ELSE IF Len(results) = 1 THEN Some(results[1])
    ELSE
      LET init == [merged |-> MergedInit(results),
                   rawParts |-> <<>>,
                   totalLatency |-> 0]
          fin == MergeLoop(init, results, 1)
          mvr == fin.merged.VisionResponse
      IN  Some([fin.merged EXCEPT
                  !.VisionResponse =
                      [Metadata |-> mvr.Metadata,
                       Text |-> Some([Raw |-> Join(fin.rawParts, "\n"),
                                      Lines |-> mvr.Text.Lines]),
                       StructuredData |->
                           Some([KeyValuePairs |-> Some(mvr.StructuredData.KeyValuePairs),
                                 Tables |-> mvr.StructuredData.Tables]),
                       Summary |-> mvr.Summary,
                       Image |-> Nil],
                  !.Latency = fin.totalLatency])

(***************************************************************************)
(* ocr.buildOCRResult and its helpers.                                     *)
(***************************************************************************)
\* A metadata section that copies the model's document type as it is.
buildMetadataAnyDocumentType(resp) ==
    IF IsNil(resp.Metadata)
    THEN [Language |-> Nil, DocumentType |-> "unknown", ConfidenceScore |-> 0]
    ELSE LET md == Deref(resp.Metadata)
         IN  [Language |-> md.Language,
              DocumentType |-> md.DocumentType,
              ConfidenceScore |-> md.ConfidenceScore]

buildMetadata(resp) ==
    IF IsNil(resp.Metadata)
    THEN [Language |-> Nil, DocumentType |-> "unknown", ConfidenceScore |-> 0]
    ELSE LET md == Deref(resp.Metadata)
         IN  [Language |-> md.Language,
              DocumentType |-> IF md.DocumentType \in ValidDocumentTypes
                               THEN md.DocumentType ELSE "unknown",
              ConfidenceScore |-> md.ConfidenceScore]

\* A line copied from the forgiving line whatever the flags are.
buildTextLineUnmasked(line, cfg) ==
    [Text |-> line.Text, BoundingBox |-> line.BoundingBox,
     Confidence |-> line.Confidence]

\* The strict line built from one forgiving line.
buildTextLine(line, cfg) ==
    [Text |-> line.Text,
     BoundingBox |-> IF cfg.WithBoundingBoxes /\ ~IsNil(line.BoundingBox)
                     THEN line.BoundingBox ELSE Nil,
     Confidence |-> IF ~cfg.WithConfidenceScores THEN 0 ELSE line.Confidence]

\* Lines starts as the empty, non-nil slice and gets one strict line per
\* forgiving line.
buildText(resp, cfg) ==
    IF IsNil(resp.Text)
    THEN [Raw |-> "", Lines |-> Some(<<>>)]
    ELSE LET t == Deref(resp.Text)
             ls == Elems(t.Lines)
         IN  [Raw |-> t.Raw,
              Lines |-> Some([i \in 1..Len(ls) |-> buildTextLine(ls[i], cfg)])]

\* A structured-data section that copies the model's fields, nil or not.
buildStructuredDataNoDefaults(resp, cfg) ==
    IF ~cfg.WithStructuredExtraction \/ IsNil(resp.StructuredData)
    THEN [KeyValuePairs |-> Some(<<>>), Tables |-> Some(<<>>)]
    ELSE LET sd == Deref(resp.StructuredData)
         IN  [KeyValuePairs |-> sd.KeyValuePairs, Tables |-> sd.Tables]

buildStructuredData(resp, cfg) ==
    IF ~cfg.WithStructuredExtraction \/ IsNil(resp.StructuredData)
    THEN [KeyValuePairs |-> Some(<<>>), Tables |-> Some(<<>>)]
    ELSE LET sd == Deref(resp.StructuredData)
         IN  [KeyValuePairs |-> IF ~IsNil(sd.KeyValuePairs)
                                THEN sd.KeyValuePairs ELSE Some(<<>>),
              Tables |-> IF ~IsNil(sd.Tables) THEN sd.Tables ELSE Some(<<>>)]

buildSummary(resp, cfg) == IF ~cfg.WithSummary THEN Nil ELSE resp.Summary

\* The image section: the measured imageInfo, overridden field by field by
\* what the model's reply asserts.
buildImage(imageInfo, resp) ==
    IF IsNil(resp.Image) THEN imageInfo
    ELSE LET vi == Deref(resp.Image)
         IN  [Width |-> IF vi.Width > 0 THEN vi.Width ELSE imageInfo.Width,
              Height |-> IF vi.Height > 0 THEN vi.Height ELSE imageInfo.Height,
              DPI |-> IF ~IsNil(vi.DPI) THEN vi.DPI ELSE imageInfo.DPI,
              ColorMode |-> IF vi.ColorMode # "" /\ vi.ColorMode \in ValidColorModes
                            THEN vi.ColorMode ELSE imageInfo.ColorMode]

buildOCRResult(source, sourceType, checksum, imageInfo, result, cfg) ==
    [Source |-> [Type |-> sourceType, Path |-> source, Checksum |-> checksum],
     Image |-> buildImage(imageInfo, result.VisionResponse),
     Metadata |-> buildMetadata(result.VisionResponse),
     Text |-> buildText(result.VisionResponse, cfg),
     StructuredData |-> buildStructuredData(result.VisionResponse, cfg),
     Summary |-> buildSummary(result.VisionResponse, cfg)]

(***************************************************************************)
(* Sources. A source string is the sequence of its parts: an optional URL  *)
(* scheme, a stem and an optional extension; the empty string is <<>>.     *)
(***************************************************************************)
EmptySource == <<>>

Sources ==
    {EmptySource,
     <<"/docs/scan", ".png">>,
     <<"/docs/scan", ".pdf">>,
     <<"https://", "example.com/scan", ".png">>,
     <<"https://", "example.com/scan", ".pdf">>}

\* utils.IsURL
IsURL(source) == source # <<>> /\ source[1] \in {"http://", "https://"}

\* utils.FileExtension: the lower-case extension, "" when there is none.
FileExtension(source) ==
    IF source # <<>> /\ source[Len(source)] \in {".png", ".jpg", ".jpeg", ".pdf"}
    THEN source[Len(source)]
    ELSE ""

\* utils.EncodeBase64
EncodeBase64(data) == "base64(" \o data \o ")"

\* utils.SHA256Bytes, and utils.SHA256File when it succeeds
SHA256Bytes(data) == "sha256(" \o data \o ")"

\* utils.GetImageInfo for a PDF or for bytes that do not decode
UnknownImageInfo == [Width |-> 0, Height |-> 0, DPI |-> Nil, ColorMode |-> "Unknown"]

\* utils.GetImageInfo: the placeholder for a PDF; else what decoding the
\* bytes gives, which is the placeholder or the measured size and color mode.
GetImageInfo(ext) ==
    IF ext = ".pdf" THEN {UnknownImageInfo}
    ELSE {UnknownImageInfo,
          [Width |-> 4, Height |-> 3, DPI |-> Nil, ColorMode |-> "RGB"]}

(***************************************************************************)
(* utils.ValidateOCRResult: nil, or the first error found. result is a     *)
(* pointer.                                                                *)
(***************************************************************************)
\* A range test that forgets the lower end.
InUnitRangeUpperOnly(c) == ~(c > 10)

\* `x < 0 || x > 1` is the failure; confidences count tenths.
InUnitRange(c) == ~(c < 0 \/ c > 10)

\* The error of the first bad line, or nil.
RECURSIVE ValidateLines(_, _)
ValidateLines(lines, i) ==
    IF i > Len(lines) THEN Nil
    ELSE IF lines[i].Text = "" THEN Some(NewError("text line has empty text"))
    ELSE IF ~InUnitRange(lines[i].Confidence)
         THEN Some(NewError("text line confidence out of range [0, 1]"))
    ELSE ValidateLines(lines, i + 1)

ValidateOCRResult(result) ==
    IF IsNil(result) THEN Some(NewError("result is nil"))
    ELSE
      LET r == Deref(result) IN
      IF r.Source.Type # "file" /\ r.Source.Type # "url"
        THEN Some(NewError("invalid source type"))
      ELSE IF r.Source.Path = EmptySource THEN Some(NewError("source path is empty"))
      ELSE IF r.Source.Checksum = "" THEN Some(NewError("source checksum is empty"))
      ELSE IF r.Metadata.DocumentType \notin ValidDocumentTypes
        THEN Some(NewError("invalid document type"))
      ELSE IF ~InUnitRange(r.Metadata.ConfidenceScore)
        THEN Some(NewError("confidence_score out of range [0, 1]"))
      ELSE IF r.Image.ColorMode \notin ValidColorModes
        THEN Some(NewError("invalid color mode"))
      ELSE IF ~IsNil(ValidateLines(Elems(r.Text.Lines), 1))
        THEN ValidateLines(Elems(r.Text.Lines), 1)
      ELSE IF IsNil(r.StructuredData.KeyValuePairs)
        THEN Some(NewError("structured_data.key_value_pairs is nil"))
      ELSE IF IsNil(r.StructuredData.Tables)
        THEN Some(NewError("structured_data.tables is nil"))
      ELSE Nil

(***************************************************************************)
(* The state of one Extract call.                                          *)
(***************************************************************************)
VARIABLES
    pc,      \* where the call is: "start", "load", "ping", "process",
             \* "page_check", "generate", "in_flight", "assemble", "done"
    input,   \* the arguments of Extract: [source, flags]
    ctx,     \* the caller's context: "live", "canceled" or "deadline"
    now,     \* the clock, in ticks
    ext,     \* the locals of Extract
    eng,     \* the locals of ProcessPDF and Process
    net,     \* the network activity so far: the number of downloads, the
             \* outcomes of the pings, and one entry per Generate request:
             \* its page and attempt, the request, how it ended ("pending",
             \* "error", "parsed", "unparsed"), the reply text, the error
    out      \* what Extract returned, [result, err], and the validation
             \* warning it logged

vars == <<pc, input, ctx, now, ext, eng, net, out>>

\* A loop `attempt <= 2`: a second retry.
LastAttemptTwoRetries == 1 + 1

\* The largest attempt number of Process's loop `attempt <= 1`.
LastAttempt == 1

\* fmt.Sprintf("ocr-%d", time.Now().UnixNano())
generateRequestID(t) == "ocr-" \o ToString(t)

\* The bytes read from the source, and the bytes of page k of a PDF.
SourceBytes(source) == IF FileExtension(source) = ".pdf" THEN "%PDF" ELSE "PNG"
PageBytes(k) == "page" \o ToString(k)

\* The replies the model may give: text that is not JSON, an empty object,
\* an object after a line of prose, an object in a markdown json fence, an
\* object with white space around its tokens.
ReplyTexts ==
    {<<"n", "o", "t", " ", "j", "s", "o", "n">>,
     <<"{", "}">>,
     <<"o", "k", "\n", "{", "A", "}">>,
     FenceJSON \o <<"\n", "{", "B", "}", "\n">> \o Fence,
     <<" ", "{", " ", "C", " ", "}", "\n">>}

\* What client.Generate returns when the server cannot be reached or answers
\* with a status other than 200.
TransportErrors ==
    {WrapW("send request", NewError("connection refused")),
     NewError("ollama API returned HTTP 500")}

\* ctx.Err() of a finished context
CtxErr(c) ==
    IF c = "canceled"
    THEN [msg |-> <<"context canceled">>, is |-> {"context.Canceled"}, text |-> <<>>]
    ELSE [msg |-> <<"context deadline exceeded">>, is |-> {"context.DeadlineExceeded"},
          text |-> <<>>]

\* client.Generate(ctx, req): an error once ctx is done; else an error of
\* the transport or the server's reply.
GenerateOutcomes(c, req) ==
    IF c # "live"
    THEN {[err |-> Some(WrapW("send request", CtxErr(c))), resp |-> Nil]}
    ELSE {[err |-> Some(e), resp |-> Nil] : e \in TransportErrors}
         \cup {[err |-> Nil,
                resp |-> Some([Model |-> req.Model, Response |-> t,
                               PromptEvalCount |-> Len(req.Prompt),
                               EvalCount |-> Len(t)])] : t \in ReplyTexts}

\* client.Ping(ctx)
PingOutcomes(c) ==
    IF c # "live"
    THEN {Some(WrapW("ping ollama", CtxErr(c)))}
    ELSE {Nil, Some(WrapW("ping ollama", NewError("connection refused"))),
          Some(NewError("ollama returned HTTP 503"))}

\* engine.ProcessConfig as Extract fills it
ProcessConfigOf(cfg, rid) ==
    [Model |-> cfg.Model, Temperature |-> cfg.Temperature, RequestID |-> rid,
     WithSummary |-> cfg.WithSummary,
     WithLanguageDetection |-> cfg.WithLanguageDetection,
     WithStructuredExtraction |-> cfg.WithStructuredExtraction,
     WithBoundingBoxes |-> cfg.WithBoundingBoxes,
     WithConfidenceScores |-> cfg.WithConfidenceScores]

\* The client.GenerateRequest Process builds, once, before its loop.
BuildRequest(imageData, pcfg) ==
    [Model |-> pcfg.Model,
     Prompt |-> BuildOCRPrompt(pcfg),
     Images |-> <<EncodeBase64(imageData)>>,
     Stream |-> FALSE,
     Format |-> "json",
     Options |-> [Temperature |-> pcfg.Temperature, NumPredict |-> 4096]]

NoExt ==
    [requestID |-> "", cfg |-> DefaultConfig, sourceType |-> "", checksum |-> "",
     fileExt |-> "", imageInfo |-> UnknownImageInfo, isPDF |-> FALSE,
     imageData |-> ""]

\* mode: "image" in Process called by Extract, "pdf1" in Process called by
\* ProcessPDF for a one-page document, "pdfN" in the page loop. result and
\* err are what the engine call returned to Extract, err before ProcessPDF
\* wraps it with the page number.
NoEng ==
    [mode |-> "", pages |-> <<>>, page |-> 0, attempt |-> 0, lastErr |-> Nil,
     allResults |-> <<>>, req |-> Nil, startTime |-> 0, result |-> Nil,
     err |-> Nil]

Init ==
    /\ pc = "start"
    /\ input \in [source : Sources, flags : FlagSets]
    /\ ctx = "live"
    /\ now = 0
    /\ ext = NoExt
    /\ eng = NoEng
    /\ net = [downloads |-> 0, pings |-> <<>>, gens |-> <<>>]
    /\ out = [result |-> Nil, err |-> Nil, warning |-> Nil]

\* Extract returns (nil, err).
ReturnError(e) ==
    /\ pc' = "done"
    /\ out' = [result |-> Nil, err |-> Some(e), warning |-> Nil]

(***************************************************************************)
(* The caller cancels the context, or the deadline that Extract set with   *)
(* context.WithTimeout passes.                                             *)
(***************************************************************************)
CtxCancel ==
    /\ pc # "done"
    /\ ctx = "live"
    /\ ctx' = "canceled"
    /\ UNCHANGED <<pc, input, now, ext, eng, net, out>>

CtxDeadline ==
    /\ pc \notin {"start", "done"}
    /\ ctx = "live"
    /\ ctx' = "deadline"
    /\ UNCHANGED <<pc, input, now, ext, eng, net, out>>

(***************************************************************************)
(* Extract, up to the source check.                                        *)
(***************************************************************************)
ExtractBegin ==
    /\ pc = "start"
    /\ LET rid == generateRequestID(now)
           cfg == ApplyFlagOptions(DefaultConfig, input.flags)
       IN  /\ ext' = [ext EXCEPT !.requestID = rid, !.cfg = cfg]
           /\ IF input.source = EmptySource
              THEN ReturnError(NewOCRError("Extract", rid, Sentinel("ErrEmptySource")))
              ELSE pc' = "load" /\ UNCHANGED out
    /\ UNCHANGED <<input, ctx, now, eng, net>>

(***************************************************************************)
(* Extract: validate and load the source, measure the image.               *)
(***************************************************************************)
\* What loading a URL source may do: fail validation, fail the download,
\* or deliver the bytes.
URLLoadOutcomes == {"invalid_url", "download_failed", "ok"}

\* What loading a file source may do.
FileLoadOutcomes == {"invalid_file", "read_failed", "checksum_failed", "ok"}

LoadSource ==
    /\ pc = "load"
    /\ LET src == input.source
           rid == ext.requestID
           fe == FileExtension(src)
           data == SourceBytes(src)
           loaded(st, info) ==
               /\ ext' = [ext EXCEPT !.sourceType = st, !.fileExt = fe,
                                     !.isPDF = (fe = ".pdf"), !.imageData = data,
                                     !.checksum = SHA256Bytes(data),
                                     !.imageInfo = info]
               /\ pc' = "ping"
               /\ UNCHANGED out
       IN  IF IsURL(src)
           THEN \E o \in URLLoadOutcomes :
                  CASE o = "invalid_url" ->
                         /\ ReturnError(NewOCRError("Extract.ValidateURL", rid,
                               WrapSentinelV("ErrInvalidURL", NewError("unsupported URL"))))
                         /\ UNCHANGED <<ext, net>>
                    [] o = "download_failed" ->
                         /\ ReturnError(NewOCRError("Extract.DownloadImage", rid,
                               WrapSentinelV("ErrURLFetchFailed",
                                             NewError("download image"))))
                         /\ net' = [net EXCEPT !.downloads = @ + 1]
                         /\ UNCHANGED ext
                    [] o = "ok" ->
                         /\ \E info \in GetImageInfo(fe) : loaded("url", info)
                         /\ net' = [net EXCEPT !.downloads = @ + 1]
           ELSE \E o \in FileLoadOutcomes :
                  CASE o = "invalid_file" ->
                         /\ ReturnError(NewOCRError("Extract.ValidateFile", rid,
                               WrapSentinelV("ErrFileNotFound", NewError("file not found"))))
                         /\ UNCHANGED <<ext, net>>
                    [] o = "read_failed" ->
                         /\ ReturnError(NewOCRError("Extract.LoadImage", rid,
                               WrapSentinelV("ErrFileReadFailed", NewError("read file"))))
                         /\ UNCHANGED <<ext, net>>
                    [] o = "checksum_failed" ->
                         /\ ReturnError(NewOCRError("Extract.Checksum", rid,
                               WrapSentinelV("ErrFileReadFailed",
                                             NewError("sha256: open file"))))
                         /\ UNCHANGED <<ext, net>>
                    [] o = "ok" ->
                         /\ \E info \in GetImageInfo(fe) : loaded("file", info)
                         /\ UNCHANGED net
    /\ UNCHANGED <<input, ctx, now, eng>>

(***************************************************************************)
(* Extract: the liveness probe.                                            *)
(***************************************************************************)
\* A probe whose failure is only noted: the call goes on to the engine.
PingFailureIgnored ==
    /\ pc = "ping"
    /\ \E r \in PingOutcomes(ctx) :
         net' = [net EXCEPT !.pings = Append(@, IF IsNil(r) THEN "ok" ELSE "failed")]
    /\ pc' = "process"
    /\ UNCHANGED <<input, ctx, now, ext, eng, out>>

Ping ==
    /\ pc = "ping"
    /\ \E r \in PingOutcomes(ctx) :
         /\ net' = [net EXCEPT !.pings = Append(@, IF IsNil(r) THEN "ok" ELSE "failed")]
         /\ IF ~IsNil(r)
            THEN ReturnError(NewOCRError("Extract.Ping", ext.requestID,
                                WrapSentinelV("ErrOllamaUnavailable", Deref(r))))
            ELSE pc' = "process" /\ UNCHANGED out
    /\ UNCHANGED <<input, ctx, now, ext, eng>>

(***************************************************************************)
(* Process up to its loop: the prompt and the request, built once.         *)
(***************************************************************************)
\* A Process whose attempt counter lives on across calls.
EnterProcessSharedAttempts(e, mode, imageData) ==
    [e EXCEPT !.mode = mode,
              !.lastErr = Nil,
              !.startTime = now,
              !.req = Some(BuildRequest(imageData,
                                        ProcessConfigOf(ext.cfg, ext.requestID)))]

EnterProcess(e, mode, imageData) ==
    [e EXCEPT !.mode = mode,
              !.attempt = 0,
              !.lastErr = Nil,
              !.startTime = now,
              !.req = Some(BuildRequest(imageData,
                                        ProcessConfigOf(ext.cfg, ext.requestID)))]

\* An error for a failed engine call that leaves the request ID out.
EngineErrorNoRequestID(op, e) ==
    NewOCRError(op, "", WrapSentinelV("ErrOllamaRequestFailed", e))

\* Extract's error for a failed engine call
EngineError(op, e) ==
    NewOCRError(op, ext.requestID, WrapSentinelV("ErrOllamaRequestFailed", e))

\* What writing a downloaded PDF to a temporary file may do.
TempFileOutcomes == {"create_failed", "write_failed", "ok"}

\* What utils.PDFToImages may return: an error, or one to MaxPages pages
\* (it falls back to the raw bytes as a single page, so never zero pages).
PDFToImagesOutcomes ==
    {[err |-> Some(WrapW("pdf fallback read", NewError("no such file"))), pages |-> <<>>]}
    \cup {[err |-> Nil, pages |-> [k \in 1..n |-> PageBytes(k)]] : n \in 1..MaxPages}

\* ProcessPDF up to its first page: convert, then the one-page shortcut or
\* the page loop.
EnterProcessPDF ==
    \E o \in PDFToImagesOutcomes :
      IF ~IsNil(o.err)
      THEN /\ ReturnError(EngineError("Extract.ProcessPDF",
                             WrapW("convert PDF to images", Deref(o.err))))
           /\ UNCHANGED eng
      ELSE IF Len(o.pages) = 0
      THEN /\ ReturnError(EngineError("Extract.ProcessPDF",
                             NewError("PDF produced no pages")))
           /\ UNCHANGED eng
      ELSE IF Len(o.pages) = 1
      THEN /\ eng' = EnterProcess([eng EXCEPT !.pages = o.pages, !.page = 1],
                                  "pdf1", o.pages[1])
           /\ pc' = "generate"
           /\ UNCHANGED out
      ELSE /\ eng' = [eng EXCEPT !.mode = "pdfN", !.pages = o.pages, !.page = 1,
                                 !.allResults = <<>>]
           /\ pc' = "page_check"
           /\ UNCHANGED out

\* Extract: the branch on isPDF.
StartProcess ==
    /\ pc = "process"
    /\ IF ext.isPDF
       THEN IF ext.sourceType = "url"
            THEN \E o \in TempFileOutcomes :
                   CASE o = "create_failed" ->
                          /\ ReturnError(NewOCRError("Extract.TempFile", ext.requestID,
                                            NewError("create temp file")))
                          /\ UNCHANGED eng
                     [] o = "write_failed" ->
                          /\ ReturnError(NewOCRError("Extract.WriteTempFile",
                                            ext.requestID, NewError("write temp file")))
                          /\ UNCHANGED eng
                     [] o = "ok" -> EnterProcessPDF
            ELSE EnterProcessPDF
       ELSE /\ eng' = EnterProcess([eng EXCEPT !.page = 1], "image", ext.imageData)
            /\ pc' = "generate"
            /\ UNCHANGED out
    /\ UNCHANGED <<input, ctx, now, ext, net>>

(***************************************************************************)
(* ProcessPDF: the head of the page loop, `select { case <-ctx.Done() }`.  *)
(***************************************************************************)
\* A page loop without the cancellation check.
CtxDoneNeverTaken(c) == FALSE

\* case <-ctx.Done(): is taken when the context is finished
CtxDone(c) == c # "live"

PageCheck ==
    /\ pc = "page_check"
    /\ IF CtxDone(ctx)
       THEN /\ ReturnError(EngineError("Extract.ProcessPDF", CtxErr(ctx)))
            /\ UNCHANGED eng
       ELSE /\ eng' = EnterProcess(eng, "pdfN", eng.pages[eng.page])
            /\ pc' = "generate"
            /\ UNCHANGED out
    /\ UNCHANGED <<input, ctx, now, ext, net>>

(***************************************************************************)
(* Process: one turn of the loop `for attempt := 0; attempt <= 1`.         *)
(***************************************************************************)
\* A retry that rebuilds the request with a reminder added to the prompt.
GenerateSendMutatedRetry ==
    /\ pc = "generate"
    /\ LET r == Deref(eng.req)
           sent == IF eng.attempt > 0
                   THEN [r EXCEPT !.Prompt = Append(@, "Reply with JSON only.")]
                   ELSE r
       IN  net' = [net EXCEPT !.gens = Append(@, [page |-> eng.page,
                                                  attempt |-> eng.attempt,
                                                  req |-> sent,
                                                  outcome |-> "pending",
                                                  reply |-> <<>>,
                                                  err |-> Nil])]
    /\ pc' = "in_flight"
    /\ UNCHANGED <<input, ctx, now, ext, eng, out>>

\* e.client.Generate(ctx, req) sends req, the request built before the loop.
GenerateSend ==
    /\ pc = "generate"
    /\ net' = [net EXCEPT !.gens = Append(@, [page |-> eng.page,
                                              attempt |-> eng.attempt,
                                              req |-> Deref(eng.req),
                                              outcome |-> "pending",
                                              reply |-> <<>>,
                                              err |-> Nil])]
    /\ pc' = "in_flight"
    /\ UNCHANGED <<input, ctx, now, ext, eng, out>>

GenerateErrTag(a) == "ollama generate (attempt " \o ToString(a) \o ")"
ParseErrTag(a) == "parse response (attempt " \o ToString(a) \o ")"

\* A loop body that treats a failed Generate call like a failed parse and
\* goes round again.
AfterGenerateRetryTransport(e, o, t) ==
    IF ~IsNil(o.err)
    THEN LET lastErr == WrapW(GenerateErrTag(e.attempt), Deref(o.err))
         IN  IF e.attempt + 1 <= LastAttempt
             THEN [kind |-> "retry", result |-> Nil, lastErr |-> Some(lastErr),
                   err |-> Nil]
             ELSE [kind |-> "return", result |-> Nil, lastErr |-> Some(lastErr),
                   err |-> Some(lastErr)]
    ELSE
      LET resp == Deref(o.resp)
          p == ParseAndValidateJSON(resp.Response)
      IN  IF ~p.ok
          THEN LET lastErr == WrapW(ParseErrTag(e.attempt), Deref(p.err))
               IN  IF e.attempt + 1 <= LastAttempt
                   THEN [kind |-> "retry", result |-> Nil, lastErr |-> Some(lastErr),
                         err |-> Nil]
                   ELSE [kind |-> "return", result |-> Nil, lastErr |-> Some(lastErr),
                         err |-> Some(WrapW("all attempts failed", lastErr))]
          ELSE [kind |-> "return",
                result |-> Some([VisionResponse |-> p.resp,
                                 Model |-> resp.Model,
                                 PromptTokens |-> resp.PromptEvalCount,
                                 EvalTokens |-> resp.EvalCount,
                                 Latency |-> t - e.startTime]),
                lastErr |-> e.lastErr,
                err |-> Nil]

\* The rest of the loop body once Generate has returned o at time t:
\*   kind "return": Process returns (result, err);
\*   kind "retry":  `continue` with lastErr set.
AfterGenerate(e, o, t) ==
    IF ~IsNil(o.err)
    THEN [kind |-> "return", result |-> Nil, lastErr |-> e.lastErr,
          err |-> Some(WrapW(GenerateErrTag(e.attempt), Deref(o.err)))]
    ELSE
      LET resp == Deref(o.resp)
          p == ParseAndValidateJSON(resp.Response)
      IN  IF ~p.ok
          THEN LET lastErr == WrapW(ParseErrTag(e.attempt), Deref(p.err))
               IN  IF e.attempt + 1 <= LastAttempt
                   THEN [kind |-> "retry", result |-> Nil, lastErr |-> Some(lastErr),
                         err |-> Nil]
                   ELSE [kind |-> "return", result |-> Nil, lastErr |-> Some(lastErr),
                         err |-> Some(WrapW("all attempts failed", lastErr))]
          ELSE [kind |-> "return",
                result |-> Some([VisionResponse |-> p.resp,
                                 Model |-> resp.Model,
                                 PromptTokens |-> resp.PromptEvalCount,
                                 EvalTokens |-> resp.EvalCount,
                                 Latency |-> t - e.startTime]),
                lastErr |-> e.lastErr,
                err |-> Nil]

\* How the log entry of the request in flight ends.
OutcomeKind(o) ==
    IF ~IsNil(o.err) THEN "error"
    ELSE IF ParseAndValidateJSON(Deref(o.resp).Response).ok THEN "parsed"
    ELSE "unparsed"

\* A page loop that logs a failed page and goes on with the next one.
ProcessFailedSkipPage(err) ==
    IF eng.mode = "pdfN" /\ eng.page < Len(eng.pages)
    THEN /\ eng' = [eng EXCEPT !.page = @ + 1]
         /\ pc' = "page_check"
         /\ UNCHANGED out
    ELSE /\ eng' = [eng EXCEPT !.err = Some(err)]
         /\ ReturnError(EngineError("Extract.ProcessPDF", err))

\* Process has returned (nil, err) to its caller.
ProcessFailed(err) ==
    /\ eng' = [eng EXCEPT !.err = Some(err)]
    /\ CASE eng.mode = "image" -> ReturnError(EngineError("Extract.Process", err))
         [] eng.mode = "pdf1" -> ReturnError(EngineError("Extract.ProcessPDF", err))
         [] eng.mode = "pdfN" ->
              ReturnError(EngineError("Extract.ProcessPDF",
                             WrapW("process page " \o ToString(eng.page), err)))

\* Process has returned (result, nil) to its caller: Extract, ProcessPDF's
\* one-page shortcut, or the page loop, which appends it and goes on to the
\* next page or, after the last, merges.
ProcessSucceeded(result) ==
    /\ UNCHANGED out
    /\ IF eng.mode \in {"image", "pdf1"}
       THEN /\ eng' = [eng EXCEPT !.result = Some(result)]
            /\ pc' = "assemble"
       ELSE LET all == Append(eng.allResults, result)
            IN  IF eng.page = Len(eng.pages)
                THEN /\ eng' = [eng EXCEPT !.allResults = all,
                                           !.result = mergeResults(all)]
                     /\ pc' = "assemble"
                ELSE /\ eng' = [eng EXCEPT !.allResults = all, !.page = @ + 1]
                     /\ pc' = "page_check"

\* Generate returns; the reply is parsed; Process returns or goes round.
GenerateReceive ==
    /\ pc = "in_flight"
    /\ now' = now + 1
    /\ \E o \in GenerateOutcomes(ctx, Deref(eng.req)) :
         LET step == AfterGenerate(eng, o, now')
             n == Len(net.gens)
         IN  /\ net' = [net EXCEPT !.gens[n].outcome = OutcomeKind(o),
                                   !.gens[n].reply = IF IsNil(o.resp) THEN <<>>
                                                     ELSE Deref(o.resp).Response,
                                   !.gens[n].err = o.err]
             /\ IF step.kind = "retry"
                THEN /\ eng' = [eng EXCEPT !.attempt = @ + 1, !.lastErr = step.lastErr]
                     /\ pc' = "generate"
                     /\ UNCHANGED out
                ELSE IF ~IsNil(step.err)
                THEN ProcessFailed(Deref(step.err))
                ELSE ProcessSucceeded(Deref(step.result))
    /\ UNCHANGED <<input, ctx, ext>>

(***************************************************************************)
(* Extract: assemble, validate, return.                                    *)
(***************************************************************************)
\* An Extract that treats a validation error as fatal.
ExtractOutcomeValidationGate(ocrResult, verr) ==
    IF IsNil(verr)
    THEN [result |-> Some(ocrResult), err |-> Nil, warning |-> Nil]
    ELSE [result |-> Nil,
          err |-> Some(NewOCRError("Extract.Validate", ext.requestID,
                          WrapSentinelV("ErrValidationFailed", Deref(verr)))),
          warning |-> verr]

\* What Extract returns once the result is assembled and validated: the
\* validation error is logged as a warning, never returned.
ExtractOutcome(ocrResult, verr) ==
    [result |-> Some(ocrResult), err |-> Nil, warning |-> verr]

Finish ==
    /\ pc = "assemble"
    /\ LET ocrResult == buildOCRResult(input.source, ext.sourceType, ext.checksum,
                                       ext.imageInfo, Deref(eng.result), ext.cfg)
       IN  out' = ExtractOutcome(ocrResult, ValidateOCRResult(Some(ocrResult)))
    /\ pc' = "done"
    /\ UNCHANGED <<input, ctx, now, ext, eng, net>>

Next ==
    \/ CtxCancel
    \/ CtxDeadline
    \/ ExtractBegin
    \/ LoadSource
    \/ Ping
    \/ StartProcess
    \/ PageCheck
    \/ GenerateSend
    \/ GenerateReceive
    \/ Finish

Spec == Init /\ [][Next]_vars

(***************************************************************************)
(* The engine's retry and page-loop contract.                              *)
(***************************************************************************)
Gens == net.gens

\* Page p has failed: a Generate call for it returned an error, or two of
\* its replies did not parse.
PageFailed(p) ==
    \E i \in 1..Len(Gens) :
       /\ Gens[i].page = p
       /\ \/ Gens[i].outcome = "error"
          \/ /\ Gens[i].outcome = "unparsed"
             /\ \E k \in 1..(i - 1) : Gens[k].page = p /\ Gens[k].outcome = "unparsed"

\* C1: in the single-image path there are at most two Generate requests and a
\* second one only after the first reply failed to parse; once the first reply
\* has failed to parse, the next thing Process does is send one more request
\* equal to the first (model, prompt, image, options); and when the reply to
\* that second request parses, Process returns the structure parsed from it
\* and Extract returns a result and no error.
C1_RetryOnceIdentical ==
    eng.mode = "image" =>
      /\ Len(Gens) <= 2
      /\ Len(Gens) = 2 => Gens[1].outcome = "unparsed"
      /\ (Len(Gens) >= 1 /\ Gens[1].outcome = "unparsed" /\ pc # "generate") =>
            /\ Len(Gens) = 2
            /\ Gens[1].attempt = 0
            /\ Gens[2].attempt = 1
            /\ Gens[2].req = Gens[1].req
      /\ (Len(Gens) = 2 /\ Gens[2].outcome = "parsed") =>
            /\ pc \in {"assemble", "done"}
            /\ eng.err = Nil
            /\ ~IsNil(eng.result)
            /\ Deref(eng.result).VisionResponse = Unmarshal(CleanJSONResponse(Gens[2].reply)).resp
            /\ pc = "done" => IsNil(out.err) /\ ~IsNil(out.result)

\* Extract has returned a result for an image whose first reply did not parse
\* and whose second reply did.
C1_Witness ==
    /\ pc = "done"
    /\ eng.mode = "image"
    /\ Len(Gens) = 2
    /\ Gens[1].outcome = "unparsed"
    /\ Gens[2].outcome = "parsed"
    /\ ~IsNil(out.result)

\* C2: no page ever gets a third Generate request; and when the replies of
\* both attempts for an image failed to parse, the call is over, Extract
\* returned no result and an error, and the error Process returned is "all
\* attempts failed" wrapping "parse response (attempt 1)" wrapping the parse
\* error of the second reply.
C2_BothAttemptsFail ==
    LET n == Len(Gens) IN
    /\ \A p \in 1..MaxPages : Cardinality({i \in 1..n : Gens[i].page = p}) <= 2
    /\ (/\ n >= 2
        /\ Gens[n].outcome = "unparsed"
        /\ Gens[n - 1].outcome = "unparsed"
        /\ Gens[n - 1].page = Gens[n].page) =>
          /\ Gens[n - 1].attempt = 0
          /\ Gens[n].attempt = 1
          /\ pc = "done"
          /\ IsNil(out.result)
          /\ ~IsNil(out.err)
          /\ IsNil(eng.result)
          /\ eng.err = Some([msg |-> <<"all attempts failed", "parse response (attempt 1)",
                                       "json unmarshal", "invalid JSON">>,
                             is |-> {},
                             text |-> CleanJSONResponse(Gens[n].reply)])

\* Extract has failed for an image after two replies that did not parse.
C2_Witness ==
    /\ pc = "done"
    /\ eng.mode = "image"
    /\ Len(Gens) = 2
    /\ Gens[1].outcome = "unparsed"
    /\ Gens[2].outcome = "unparsed"
    /\ ~IsNil(out.err)

\* C3: a Generate request that ended in an error is the last request of the
\* call: the call is over, Extract returned no result and an error, and the
\* error Process returned is that error wrapped with the attempt number.
C3_TransportNotRetried ==
    \A i \in 1..Len(Gens) :
       Gens[i].outcome = "error" =>
          /\ i = Len(Gens)
          /\ pc = "done"
          /\ IsNil(out.result)
          /\ ~IsNil(out.err)
          /\ IsNil(eng.result)
          /\ ~IsNil(Gens[i].err)
          /\ eng.err = Some(WrapW(GenerateErrTag(Gens[i].attempt), Deref(Gens[i].err)))

\* The retry that followed a parse failure met a transport error, with the
\* context still live.
C3_Witness ==
    /\ pc = "done"
    /\ ctx = "live"
    /\ Len(Gens) = 2
    /\ Gens[1].outcome = "unparsed"
    /\ Gens[2].outcome = "error"
    /\ Gens[2].err \in {Some(e) : e \in TransportErrors}

\* C4: in the page loop the requests go out in page order, a request for page
\* k+1 only after a reply for page k has parsed, and only the newest request
\* can be in flight; once a page has failed the call is over with an error
\* and no result, merged or not, and no request exists for a later page.
C4_PagesInOrderFailFast ==
    eng.mode = "pdfN" =>
      /\ \A i, j \in 1..Len(Gens) : i < j => Gens[i].page <= Gens[j].page
      /\ \A j \in 1..Len(Gens) :
            Gens[j].page > 1 =>
               /\ \E i \in 1..(j - 1) :
                     Gens[i].page = Gens[j].page - 1 /\ Gens[i].outcome = "parsed"
               /\ Len(eng.allResults) >= Gens[j].page - 1
      /\ \A i \in 1..Len(Gens) : Gens[i].outcome = "pending" => i = Len(Gens)
      /\ \A p \in 1..Len(eng.pages) :
            PageFailed(p) =>
               /\ pc = "done"
               /\ IsNil(out.result)
               /\ ~IsNil(out.err)
               /\ IsNil(eng.result)
               /\ \A i \in 1..Len(Gens) : Gens[i].page <= p

\* The second page of a three-page document has failed after the first page
\* succeeded.
C4_Witness ==
    /\ pc = "done"
    /\ eng.mode = "pdfN"
    /\ Len(eng.pages) = 3
    /\ PageFailed(2)
    /\ Len(eng.allResults) = 1

\* At the head of the page loop a finished context ends the call in one
\* step: Extract returns the context's error and no result, and the network
\* activity stays as it was, so no Generate request is issued for this page.
\* And when the call ended at the check before page k, there are requests
\* for the pages before k only.
C5_CheckStep ==
    (pc = "page_check" /\ ctx # "live") =>
       /\ pc' = "done"
       /\ net' = net
       /\ IsNil(out'.result)
       /\ out'.err = Some(EngineError("Extract.ProcessPDF", CtxErr(ctx)))

\* The call ended at the cancellation check of the page loop.
EndedAtPageCheck ==
    /\ pc = "done"
    /\ eng.mode = "pdfN"
    /\ IsNil(eng.err)
    /\ ~IsNil(out.err)

\* C5: the cancellation signal is checked before every page: a context that
\* is cancelled or expired when page k is about to be processed makes the
\* call return the context's error, with no request for page k or any later
\* page and no merged result of the pages already processed.
C5_CancelBeforeEachPage ==
    /\ [][C5_CheckStep]_vars
    /\ [](EndedAtPageCheck =>
            /\ IsNil(out.result)
            /\ ctx # "live"
            /\ Deref(out.err).Err.msg[2] \in {"context canceled", "context deadline exceeded"}
            /\ \A i \in 1..Len(Gens) : Gens[i].page < eng.page)

\* The call ended at the check before page 2 of a longer document, with page
\* 1 already processed.
C5_Witness ==
    /\ EndedAtPageCheck
    /\ eng.page = 2
    /\ Len(eng.pages) > 2
    /\ Len(eng.allResults) = 1

(***************************************************************************)
(* What Extract returns.                                                   *)
(***************************************************************************)
\* The call was aborted because the context was finished: at the check
\* before a page, or by the Generate call that was in flight.
AbortedByContext ==
    \/ EndedAtPageCheck
    \/ /\ pc = "done"
       /\ Len(Gens) >= 1
       /\ Gens[Len(Gens)].outcome = "error"
       /\ Deref(Gens[Len(Gens)].err).is \cap
             {"context.Canceled", "context.DeadlineExceeded"} # {}

\* C6: when the call was aborted because the context was finished, the error
\* Extract returns is a cancellation failure: errors.Is finds ErrContextCanceled
\* or the context's own error on its chain, which it never does for another
\* transport failure.
C6_CancellationDistinguished ==
    AbortedByContext =>
       \E S \in {"ErrContextCanceled", "context.Canceled", "context.DeadlineExceeded"} :
          ErrorsIs(Deref(out.err).Err, S)

\* C7: an empty source ends the call with ErrEmptySource and no network
\* activity at all; there is at most one ping; a Generate request exists only
\* after the ping of this call succeeded; a failed ping ends the call with
\* ErrOllamaUnavailable and without any Generate request.
C7_ShortCircuit ==
    /\ (input.source = EmptySource /\ pc = "done") =>
          /\ out.err = Some(NewOCRError("Extract", ext.requestID, Sentinel("ErrEmptySource")))
          /\ IsNil(out.result)
    /\ input.source = EmptySource =>
          net = [downloads |-> 0, pings |-> <<>>, gens |-> <<>>]
    /\ Len(net.pings) <= 1
    /\ (Gens # <<>> \/ pc \in {"process", "page_check", "generate", "in_flight", "assemble"})
          => net.pings = <<"ok">>
    /\ net.pings = <<"failed">> =>
          /\ pc = "done"
          /\ Gens = <<>>
          /\ IsNil(out.result)
          /\ ~IsNil(out.err)
          /\ Deref(out.err).Op = "Extract.Ping"
          /\ ErrorsIs(Deref(out.err).Err, "ErrOllamaUnavailable")

\* The ping failed with the context live, and the call is over.
C7_Witness ==
    /\ pc = "done"
    /\ ctx = "live"
    /\ net.pings = <<"failed">>

\* The pages an engine run has to cover: one for an image or a one-page
\* document.
PagesToCover == IF eng.mode = "pdfN" THEN 1..Len(eng.pages) ELSE {1}

\* Every section of the strict result is populated.
FullyAssembled(r) ==
    /\ r.Source.Type \in {"file", "url"}
    /\ r.Source.Path = input.source
    /\ r.Source.Checksum # ""
    /\ r.Metadata.DocumentType \in ValidDocumentTypes
    /\ r.Image.ColorMode \in ValidColorModes
    /\ ~IsNil(r.Text.Lines)
    /\ ~IsNil(r.StructuredData.KeyValuePairs)
    /\ ~IsNil(r.StructuredData.Tables)

\* C8: nothing is returned before the call is over; when it is over, Extract
\* has returned either a fully assembled result and no error, every page
\* having a reply that parsed, or no result and an error with an operation
\* name and the request ID of this call; and after a failed load, ping or
\* page there is no result.
C8_ResultXorError ==
    /\ pc # "done" => IsNil(out.result) /\ IsNil(out.err)
    /\ pc = "done" =>
          \/ /\ ~IsNil(out.result)
             /\ IsNil(out.err)
             /\ FullyAssembled(Deref(out.result))
             /\ \A p \in PagesToCover :
                   \E i \in 1..Len(Gens) : Gens[i].page = p /\ Gens[i].outcome = "parsed"
          \/ /\ IsNil(out.result)
             /\ ~IsNil(out.err)
             /\ Deref(out.err).Op # ""
             /\ Deref(out.err).RequestID # ""
             /\ Deref(out.err).RequestID = ext.requestID
    /\ (\/ \E p \in 1..MaxPages : PageFailed(p)
        \/ "failed" \in {net.pings[i] : i \in 1..Len(net.pings)}
        \/ (pc = "done" /\ net.pings = <<>>)) => IsNil(out.result)

\* The last page of a document has failed after the pages before it
\* succeeded, and Extract has returned.
C8_Witness ==
    /\ pc = "done"
    /\ eng.mode = "pdfN"
    /\ Len(eng.allResults) = Len(eng.pages) - 1
    /\ PageFailed(Len(eng.pages))
    /\ ~IsNil(out.err)

\* The result Extract assembles from the engine's result.
Assembled ==
    buildOCRResult(input.source, ext.sourceType, ext.checksum, ext.imageInfo,
                   Deref(eng.result), ext.cfg)

\* C9: once the engine has returned a result, Extract returns the assembled
\* result and no error, whether or not validation reported an error on it;
\* the validation error only shows as the logged warning.
C9_ValidationIsDiagnostic ==
    (pc = "done" /\ ~IsNil(eng.result)) =>
       /\ IsNil(out.err)
       /\ out.result = Some(Assembled)
       /\ out.warning = ValidateOCRResult(out.result)

\* Extract has returned a result on which validation reported an error.
C9_Witness ==
    /\ pc = "done"
    /\ ~IsNil(out.result)
    /\ ~IsNil(out.warning)
    /\ ~IsNil(ValidateOCRResult(out.result))

\* C10: in a result Extract returns, the confidence score and the confidence
\* of every line lie in [0,1].
C10_ConfidenceInUnitRange ==
    (pc = "done" /\ ~IsNil(out.result)) =>
       LET r == Deref(out.result)
           ls == Elems(r.Text.Lines)
       IN  /\ InUnitRange(r.Metadata.ConfidenceScore)
           /\ \A i \in 1..Len(ls) : InUnitRange(ls[i].Confidence)

(***************************************************************************)
(* The shape of the result Extract returns.                                *)
(***************************************************************************)
\* Extract has returned a result.
Returned == pc = "done" /\ ~IsNil(out.result)

\* The structure the engine handed to Extract: the reply of the only page,
\* or the merge of the pages' replies.
Reply == Deref(eng.result).VisionResponse

\* C11: in a result Extract returns, key_value_pairs is a mapping and tables
\* a sequence, never nil, for an image and for a merged document; they are
\* the empty mapping and the empty sequence when the model left out
\* structured_data, and each of them is empty when the model left that
\* sub-field out.
C11_StructuredDataNeverAbsent ==
    Returned =>
       LET sd == Deref(out.result).StructuredData
       IN  /\ ~IsNil(sd.KeyValuePairs)
           /\ ~IsNil(sd.Tables)
           /\ IsNil(Reply.StructuredData) =>
                 sd.KeyValuePairs = Some(<<>>) /\ sd.Tables = Some(<<>>)
           /\ (~IsNil(Reply.StructuredData)
               /\ IsNil(Deref(Reply.StructuredData).KeyValuePairs)) =>
                 sd.KeyValuePairs = Some(<<>>)
           /\ (~IsNil(Reply.StructuredData)
               /\ IsNil(Deref(Reply.StructuredData).Tables)) =>
                 sd.Tables = Some(<<>>)

\* A merged document none of whose pages had a table, with structured
\* extraction enabled and key-value pairs found.
C11_Witness ==
    /\ Returned
    /\ eng.mode = "pdfN"
    /\ ext.cfg.WithStructuredExtraction
    /\ IsNil(Deref(Reply.StructuredData).Tables)
    /\ Deref(Reply.StructuredData).KeyValuePairs # Some(<<>>)
    /\ Deref(out.result).StructuredData.Tables = Some(<<>>)

\* C12: in a result Extract returns, the document type and the color mode
\* are enumerated values; a document type the model left out or took from
\* outside the set shows as unknown, and a color mode from outside the set
\* leaves the measured color mode in place.
C12_EnumeratedValues ==
    Returned =>
       LET r == Deref(out.result)
       IN  /\ r.Metadata.DocumentType \in
                 {"invoice", "receipt", "id_card", "contract", "unknown"}
           /\ r.Image.ColorMode \in {"RGB", "Grayscale", "CMYK", "Unknown"}
           /\ (\/ IsNil(Reply.Metadata)
               \/ Deref(Reply.Metadata).DocumentType \notin
                     {"invoice", "receipt", "id_card", "contract", "unknown"})
                 => r.Metadata.DocumentType = "unknown"
           /\ (~IsNil(Reply.Image)
               /\ Deref(Reply.Image).ColorMode \notin
                     {"RGB", "Grayscale", "CMYK", "Unknown"})
                 => r.Image.ColorMode = ext.imageInfo.ColorMode

\* A reply with a document type and a color mode outside the sets, for an
\* image that was measured as RGB.
C12_Witness ==
    /\ Returned
    /\ ~IsNil(Reply.Metadata)
    /\ Deref(Reply.Metadata).DocumentType = "memo"
    /\ ~IsNil(Reply.Image)
    /\ Deref(Reply.Image).ColorMode = "sepia"
    /\ ext.imageInfo.ColorMode = "RGB"
    /\ Deref(out.result).Image.ColorMode = "RGB"

\* C13: in a result Extract returns, a disabled flag masks its field
\* whatever the model supplied: no summary without WithSummary, no bounding
\* box on any line without WithBoundingBoxes, confidence 0 on every line
\* without WithConfidenceScores, empty key-value pairs and tables without
\* WithStructuredExtraction.
C13_FlagMasking ==
    Returned =>
       LET r == Deref(out.result)
           ls == Elems(r.Text.Lines)
           cfg == ApplyFlagOptions(DefaultConfig, input.flags)
       IN  /\ ~cfg.WithSummary => IsNil(r.Summary)
           /\ ~cfg.WithBoundingBoxes => \A i \in 1..Len(ls) : IsNil(ls[i].BoundingBox)
           /\ ~cfg.WithConfidenceScores => \A i \in 1..Len(ls) : ls[i].Confidence = 0
           /\ ~cfg.WithStructuredExtraction =>
                 /\ r.StructuredData.KeyValuePairs = Some(<<>>)
                 /\ r.StructuredData.Tables = Some(<<>>)

\* Every flag is disabled and the reply carries a summary, a line with a
\* bounding box and a confidence, key-value pairs and a table.
C13_Witness ==
    /\ Returned
    /\ \A n \in FlagNames : ~input.flags[n]
    /\ ~IsNil(Reply.Summary)
    /\ ~IsNil(Reply.Text)
    /\ \E i \in 1..Len(Elems(Deref(Reply.Text).Lines)) :
          /\ ~IsNil(Elems(Deref(Reply.Text).Lines)[i].BoundingBox)
          /\ Elems(Deref(Reply.Text).Lines)[i].Confidence # 0
    /\ ~IsNil(Reply.StructuredData)
    /\ Elems(Deref(Reply.StructuredData).KeyValuePairs) # <<>>
    /\ Elems(Deref(Reply.StructuredData).Tables) # <<>>
    /\ Len(Elems(Deref(out.result).Text.Lines)) > 0

\* C14: in a result Extract returns with WithLanguageDetection disabled, the
\* language is null whatever language the model's reply supplied.
C14_LanguageMasked ==
    (Returned /\ ~ApplyFlagOptions(DefaultConfig, input.flags).WithLanguageDetection) =>
       IsNil(Deref(out.result).Metadata.Language)

\* C15: in a result Extract returns, each of the image's width, height, DPI
\* and color mode is the value the model's reply asserts when that value is
\* non-zero (width, height, DPI) or non-empty and an enumerated color mode,
\* and is the measured value otherwise.
C15_ImageConflictPolicy ==
    Returned =>
       LET r == Deref(out.result)
           m == ext.imageInfo
           has == ~IsNil(Reply.Image)
           vi == Deref(Reply.Image)
       IN  /\ r.Image.Width = IF has /\ vi.Width # 0 THEN vi.Width ELSE m.Width
           /\ r.Image.Height = IF has /\ vi.Height # 0 THEN vi.Height ELSE m.Height
           /\ r.Image.DPI = IF has /\ ~IsNil(vi.DPI) /\ Deref(vi.DPI) # 0
                            THEN vi.DPI ELSE m.DPI
           /\ r.Image.ColorMode =
                 IF has /\ vi.ColorMode # ""
                        /\ vi.ColorMode \in {"RGB", "Grayscale", "CMYK", "Unknown"}
                 THEN vi.ColorMode ELSE m.ColorMode

(***************************************************************************)
(* The merge of the pages of a document of more than one page.             *)
(***************************************************************************)
\* ProcessPDF has merged the results of the pages.
Merged == eng.mode = "pdfN" /\ ~IsNil(eng.result)

\* The pages' results, in page order, and the merged structure.
PageResults == eng.allResults
MergedReply == Deref(eng.result).VisionResponse
NumPages == Len(PageResults)

\* The key-value pairs, lines, tables and summary of page i's reply; a
\* section the reply left out has none.
PageKV(i) ==
    LET sd == PageResults[i].VisionResponse.StructuredData
    IN  IF IsNil(sd) THEN <<>> ELSE Elems(Deref(sd).KeyValuePairs)
PageLines(i) ==
    LET t == PageResults[i].VisionResponse.Text
    IN  IF IsNil(t) THEN <<>> ELSE Elems(Deref(t).Lines)
PageTables(i) ==
    LET sd == PageResults[i].VisionResponse.StructuredData
    IN  IF IsNil(sd) THEN <<>> ELSE Elems(Deref(sd).Tables)
PageSummary(i) == PageResults[i].VisionResponse.Summary
PageHasText(i) == ~IsNil(PageResults[i].VisionResponse.Text)
PageRaw(i) ==
    IF PageHasText(i) THEN Deref(PageResults[i].VisionResponse.Text).Raw ELSE ""

\* C16: the merged mapping has the keys of all pages, and each key has the
\* value of the highest-numbered page that has the key.
C16_KeyValueLastWriteWins ==
    Merged =>
       LET kv == Elems(Deref(MergedReply.StructuredData).KeyValuePairs)
       IN  /\ ~IsNil(Deref(MergedReply.StructuredData).KeyValuePairs)
           /\ DOMAIN kv = UNION {DOMAIN PageKV(i) : i \in 1..NumPages}
           /\ \A k \in DOMAIN kv :
                 \E i \in 1..NumPages :
                    /\ k \in DOMAIN PageKV(i)
                    /\ \A j \in (i + 1)..NumPages : k \notin DOMAIN PageKV(j)
                    /\ kv[k] = PageKV(i)[k]

\* Two pages give different values for one key, the earlier page has a key
\* the later has not, and a third page follows without key-value pairs.
C16_Witness ==
    /\ Merged
    /\ NumPages = 3
    /\ \E k \in DOMAIN PageKV(1) \cap DOMAIN PageKV(2) : PageKV(1)[k] # PageKV(2)[k]
    /\ DOMAIN PageKV(1) \ DOMAIN PageKV(2) # {}
    /\ DOMAIN PageKV(3) = {}

\* The marker of page k.
Marker(k) == "--- Page " \o ToString(k) \o " ---"

\* The parts of the merged raw text up to page k: a marker line and the raw
\* text per page; with onlyWithText, pages without a text section give no
\* part.
RECURSIVE MarkedParts(_, _)
MarkedParts(k, onlyWithText) ==
    IF k = 0 THEN <<>>
    ELSE MarkedParts(k - 1, onlyWithText)
         \o (IF onlyWithText /\ ~PageHasText(k) THEN <<>>
             ELSE <<Marker(k) \o "\n" \o PageRaw(k)>>)

RECURSIVE JoinedByNewline(_)
JoinedByNewline(parts) ==
    IF parts = <<>> THEN ""
    ELSE IF Len(parts) = 1 THEN parts[1]
    ELSE parts[1] \o "\n" \o JoinedByNewline(Tail(parts))

\* C17 as stated: the merged raw text is every page's raw text, in page
\* order, each after the marker line of its page number, joined by a newline.
C17_RawTextEveryPage ==
    Merged =>
       Deref(MergedReply.Text).Raw = JoinedByNewline(MarkedParts(NumPages, FALSE))

\* C17: the merged raw text is the raw text of every page whose reply has a
\* text section, in page order, each after the marker line that carries the
\* page's position in the document, joined by a newline; a page whose reply
\* has no text section contributes nothing, not even its marker.
C17_RawTextOfPagesWithText ==
    Merged =>
       Deref(MergedReply.Text).Raw = JoinedByNewline(MarkedParts(NumPages, TRUE))

\* Page 2 of three has no text section, pages 1 and 3 have one.
C17_Witness ==
    /\ Merged
    /\ NumPages = 3
    /\ PageHasText(1)
    /\ ~PageHasText(2)
    /\ PageHasText(3)
    /\ PageRaw(1) # PageRaw(3)

\* The lines, and the tables, of pages 1 to k one after the other.
RECURSIVE LinesUpTo(_)
LinesUpTo(k) == IF k = 0 THEN <<>> ELSE LinesUpTo(k - 1) \o PageLines(k)
RECURSIVE TablesUpTo(_)
TablesUpTo(k) == IF k = 0 THEN <<>> ELSE TablesUpTo(k - 1) \o PageTables(k)
RECURSIVE SumOfLengths(_, _)
SumOfLengths(Part(_), k) == IF k = 0 THEN 0 ELSE SumOfLengths(Part, k - 1) + Len(Part(k))

\* C18: the merged lines are page 1's lines, then page 2's, up to the last
\* page's, and likewise the tables: every element kept as it is and in
\* place, so that the merged lengths are the sums of the pages' lengths.
C18_LinesAndTablesConcatenated ==
    Merged =>
       LET ls == Elems(Deref(MergedReply.Text).Lines)
           ts == Elems(Deref(MergedReply.StructuredData).Tables)
       IN  /\ ls = LinesUpTo(NumPages)
           /\ ts = TablesUpTo(NumPages)
           /\ Len(ls) = SumOfLengths(PageLines, NumPages)
           /\ Len(ts) = SumOfLengths(PageTables, NumPages)

\* Three pages, each with lines or tables of its own: two pages with
\* different lines and two pages with different tables.
C18_Witness ==
    /\ Merged
    /\ NumPages = 3
    /\ \E i, j \in 1..3 : i < j /\ PageLines(i) # <<>> /\ PageLines(j) # <<>>
                          /\ PageLines(i) # PageLines(j)
    /\ \E i, j \in 1..3 : i < j /\ PageTables(i) # <<>> /\ PageTables(j) # <<>>
                          /\ PageTables(i) # PageTables(j)

\* C19: the merged metadata (language, document type, confidence score) is
\* the first page's, whatever the later pages reported, also when the first
\* page has none and a later page has.
C19_MetadataOfFirstPage ==
    Merged =>
       /\ MergedReply.Metadata = PageResults[1].VisionResponse.Metadata
       /\ IsNil(PageResults[1].VisionResponse.Metadata) =>
             buildMetadata(MergedReply) =
                [Language |-> Nil, DocumentType |-> "unknown", ConfidenceScore |-> 0]

\* The first page has no metadata and a later page has.
C19_Witness ==
    /\ Merged
    /\ IsNil(PageResults[1].VisionResponse.Metadata)
    /\ \E i \in 2..NumPages : ~IsNil(PageResults[i].VisionResponse.Metadata)

\* C20: the merged summary is the summary of the highest-numbered page that
\* has one, and null exactly when no page has one.
C20_SummaryOfLastPageWithOne ==
    Merged =>
       /\ IsNil(MergedReply.Summary) <=> \A i \in 1..NumPages : IsNil(PageSummary(i))
       /\ \A i \in 1..NumPages :
             (/\ ~IsNil(PageSummary(i))
              /\ \A j \in (i + 1)..NumPages : IsNil(PageSummary(j)))
                => MergedReply.Summary = PageSummary(i)

\* Pages 1 and 2 have different summaries and page 3 has none.
C20_Witness ==
    /\ Merged
    /\ NumPages = 3
    /\ ~IsNil(PageSummary(1))
    /\ ~IsNil(PageSummary(2))
    /\ PageSummary(1) # PageSummary(2)
    /\ IsNil(PageSummary(3))

RECURSIVE SumOver(_, _)
SumOver(Counter(_), k) == IF k = 0 THEN 0 ELSE SumOver(Counter, k - 1) + Counter(k)

PagePromptTokens(i) == PageResults[i].PromptTokens
PageEvalTokens(i) == PageResults[i].EvalTokens
PageLatency(i) == PageResults[i].Latency

\* C21: the merged prompt-token count, eval-token count and latency are the
\* sums of the pages' values.
C21_CountersSummed ==
    Merged =>
       /\ Deref(eng.result).PromptTokens = SumOver(PagePromptTokens, NumPages)
       /\ Deref(eng.result).EvalTokens = SumOver(PageEvalTokens, NumPages)
       /\ Deref(eng.result).Latency = SumOver(PageLatency, NumPages)

\* Three pages with different eval-token counts and latencies.
C21_Witness ==
    /\ Merged
    /\ NumPages = 3
    /\ PageLatency(1) # PageLatency(3)
    /\ PageEvalTokens(1) # PageEvalTokens(2)
    /\ PageEvalTokens(2) # PageEvalTokens(3)

\* C22: for a one-page document ProcessPDF returns what Process returns for
\* that page: every request is the request the single-image path builds for
\* the page's bytes, the result is the structure parsed from the last reply
\* with that reply's token counts and the latency of the call, and its raw
\* text carries no page marker; and merging the one-element list of such a
\* result gives the result itself.
C22_SinglePageIdentity ==
    (eng.mode = "pdf1" /\ ~IsNil(eng.result)) =>
       LET r == Deref(eng.result)
           g == Gens[Len(Gens)]
       IN  /\ Len(eng.pages) = 1
           /\ \A i \in 1..Len(Gens) :
                 Gens[i].req = BuildRequest(eng.pages[1],
                                            ProcessConfigOf(ext.cfg, ext.requestID))
           /\ r.VisionResponse = ParseAndValidateJSON(g.reply).resp
           /\ r.PromptTokens = Len(g.req.Prompt)
           /\ r.EvalTokens = Len(g.reply)
           /\ r.Latency = Len(Gens)
           /\ ~IsNil(r.VisionResponse.Text) =>
                 Deref(r.VisionResponse.Text).Raw \in {"alpha", "beta"}
           /\ mergeResults(<<r>>) = Some(r)

\* A one-page document whose reply has raw text, returned by Extract.
C22_Witness ==
    /\ Returned
    /\ eng.mode = "pdf1"
    /\ ~IsNil(Reply.Text)
    /\ Deref(out.result).Text.Raw = "alpha"

\* C28: a reply that is an object without members is a parse success; a
\* second attempt for a page follows only a reply that failed to
\* deserialize, and no request for the same page follows a reply that
\* parsed; and the result Extract returns has the defaults for every section
\* the reply left out.
C28_ForgivingParse ==
    /\ \A i \in 1..Len(Gens) :
          /\ (Gens[i].reply = <<"{", "}">>) => Gens[i].outcome = "parsed"
          /\ Gens[i].attempt > 0 =>
                /\ i > 1
                /\ Gens[i - 1].page = Gens[i].page
                /\ Gens[i - 1].outcome = "unparsed"
          /\ (Gens[i].outcome = "parsed" /\ i < Len(Gens)) =>
                Gens[i + 1].page # Gens[i].page
    /\ Returned =>
          LET r == Deref(out.result)
          IN  /\ IsNil(Reply.Metadata) =>
                    /\ IsNil(r.Metadata.Language)
                    /\ r.Metadata.DocumentType = "unknown"
                    /\ r.Metadata.ConfidenceScore = 0
              /\ IsNil(Reply.Text) =>
                    r.Text.Raw = "" /\ r.Text.Lines = Some(<<>>)
              /\ IsNil(Reply.StructuredData) =>
                    /\ r.StructuredData.KeyValuePairs = Some(<<>>)
                    /\ r.StructuredData.Tables = Some(<<>>)
              /\ IsNil(Reply.Summary) => IsNil(r.Summary)

\* The only reply to an image was {} and Extract returned a result.
C28_Witness ==
    /\ Returned
    /\ eng.mode = "image"
    /\ Len(Gens) = 1
    /\ Gens[1].reply = <<"{", "}">>
    /\ Reply = ZeroVisionResponse

\* The requests of page p.
RequestsOfPage(p) == {i \in 1..Len(Gens) : Gens[i].page = p}

\* C29: a call issues at most two Generate requests per page and at most 2N
\* for N pages; the first request of every page is attempt 0 whatever the
\* pages before it used, and a first reply that fails to parse is followed
\* by one more request for the same page; at most one request is in flight,
\* and it is the latest.
C29_BoundedLoad ==
    LET N == IF eng.mode = "pdfN" THEN Len(eng.pages) ELSE 1
    IN  /\ Len(Gens) <= 2 * N
        /\ \A p \in 1..MaxPages : Cardinality(RequestsOfPage(p)) <= 2
        /\ \A i \in 1..Len(Gens) :
              /\ Gens[i].page \in 1..N
              /\ (i = 1 \/ Gens[i - 1].page # Gens[i].page) => Gens[i].attempt = 0
              /\ (Gens[i].attempt = 0 /\ Gens[i].outcome = "unparsed" /\ i < Len(Gens)) =>
                    Gens[i + 1].page = Gens[i].page /\ Gens[i + 1].attempt = 1
              /\ Gens[i].outcome = "pending" => i = Len(Gens) /\ pc = "in_flight"

\* Pages 1 and 2 of three each used their retry and page 3 is in flight.
C29_Witness ==
    /\ eng.mode = "pdfN"
    /\ Len(eng.pages) = 3
    /\ Cardinality(RequestsOfPage(1)) = 2
    /\ Cardinality(RequestsOfPage(2)) = 2
    /\ Cardinality(RequestsOfPage(3)) = 1
    /\ pc = "in_flight"

(***************************************************************************)
(* The configuration of a call: Extract applies the caller's options to    *)
(* DefaultConfig one after the other, and Process builds the prompt from   *)
(* the flags of the configuration. Here pc is "options" while options are  *)
(* applied and "prompt" once the prompt is built, input is the option      *)
(* applied last, ext.cfg the configuration and out the prompt.             *)
(***************************************************************************)
ModelArgs == {"", "llava"}
TimeoutArgs == {-1, 0, 30}
URLArgs == {"", "http://gpu:11434"}
TemperatureArgs == {-10, 0, 20, 30}
MaxFileSizeArgs == {-1, 0, 1024}

OptInit ==
    /\ pc = "options"
    /\ input = [opt |-> "", arg |-> ""]
    /\ ctx = "live"
    /\ now = 0
    /\ ext = NoExt
    /\ eng = NoEng
    /\ net = [downloads |-> 0, pings |-> <<>>, gens |-> <<>>]
    /\ out = [prompt |-> <<>>]

\* opt(cfg): the option named name, made with argument arg, turns the
\* configuration into c.
ApplyOption(name, arg, c) ==
    /\ pc = "options"
    /\ ext' = [ext EXCEPT !.cfg = c]
    /\ input' = [opt |-> name, arg |-> arg]
    /\ UNCHANGED <<pc, ctx, now, eng, net, out>>

ApplyWithModel == \E m \in ModelArgs : ApplyOption("WithModel", m, WithModel(ext.cfg, m))
ApplyWithTimeout ==
    \E d \in TimeoutArgs : ApplyOption("WithTimeout", d, WithTimeout(ext.cfg, d))
ApplyWithOllamaURL ==
    \E u \in URLArgs : ApplyOption("WithOllamaURL", u, WithOllamaURL(ext.cfg, u))
ApplyWithTemperature ==
    \E t \in TemperatureArgs :
       ApplyOption("WithTemperature", t, WithTemperature(ext.cfg, t))
ApplyWithMaxFileSize ==
    \E n \in MaxFileSizeArgs :
       ApplyOption("WithMaxFileSize", n, WithMaxFileSize(ext.cfg, n))
ApplyWithSummary ==
    \E b \in BOOLEAN : ApplyOption("WithSummary", b, WithSummary(ext.cfg, b))
ApplyWithLanguageDetection ==
    \E b \in BOOLEAN :
       ApplyOption("WithLanguageDetection", b, WithLanguageDetection(ext.cfg, b))
ApplyWithStructuredExtraction ==
    \E b \in BOOLEAN :
       ApplyOption("WithStructuredExtraction", b, WithStructuredExtraction(ext.cfg, b))
ApplyWithBoundingBoxes ==
    \E b \in BOOLEAN : ApplyOption("WithBoundingBoxes", b, WithBoundingBoxes(ext.cfg, b))
ApplyWithConfidenceScores ==
    \E b \in BOOLEAN :
       ApplyOption("WithConfidenceScores", b, WithConfidenceScores(ext.cfg, b))

\* Process builds the prompt from the flags Extract copied into its
\* ProcessConfig.
BuildPrompt ==
    /\ pc = "options"
    /\ pc' = "prompt"
    /\ out' = [prompt |-> BuildOCRPrompt(ProcessConfigOf(ext.cfg, ext.requestID))]
    /\ UNCHANGED <<input, ctx, now, ext, eng, net>>

OptNext ==
    \/ ApplyWithModel
    \/ ApplyWithTimeout
    \/ ApplyWithOllamaURL
    \/ ApplyWithTemperature
    \/ ApplyWithMaxFileSize
    \/ ApplyWithSummary
    \/ ApplyWithLanguageDetection
    \/ ApplyWithStructuredExtraction
    \/ ApplyWithBoundingBoxes
    \/ ApplyWithConfidenceScores
    \/ BuildPrompt

OptSpec == OptInit /\ [][OptNext]_vars

ConfigValid(c) ==
    /\ c.Model # ""
    /\ c.OllamaURL # ""
    /\ c.Timeout > 0
    /\ c.Temperature >= 0 /\ c.Temperature <= 20
    /\ c.MaxFileSize > 0

\* The option of record i was called with an argument that is not valid.
InvalidArgument(i) ==
    \/ i.opt \in {"WithModel", "WithOllamaURL"} /\ i.arg = ""
    \/ i.opt \in {"WithTimeout", "WithMaxFileSize"} /\ i.arg <= 0
    \/ i.opt = "WithTemperature" /\ (i.arg < 0 \/ i.arg > 20)

\* C23: after any sequence of options applied to DefaultConfig, Model and
\* OllamaURL are non-empty, Timeout and MaxFileSize positive and Temperature
\* in [0,2]; and an option called with an invalid argument leaves the whole
\* configuration as it was.
C23_OptionsKeepConfigValid ==
    /\ [](ConfigValid(ext.cfg))
    /\ [][InvalidArgument(input') => ext'.cfg = ext.cfg]_vars

\* After the model and the temperature were set, WithTemperature(3.0) was
\* applied and the temperature is still the one set before.
C23_Witness ==
    /\ pc = "options"
    /\ input = [opt |-> "WithTemperature", arg |-> 30]
    /\ ext.cfg.Temperature = 20
    /\ ext.cfg.Model = "llava"

TokensOf(p) == {p[i] : i \in 1..Len(p)}

\* The token two places after the first occurrence of the field name: the
\* first token of the field's value.
ValueOf(p, name) ==
    p[(CHOOSE i \in 1..Len(p) : p[i] = name /\ \A j \in 1..(i - 1) : p[j] # name) + 2]

SchemaFieldNames ==
    {"\"metadata\"", "\"language\"", "\"document_type\"", "\"confidence_score\"",
     "\"text\"", "\"raw\"", "\"lines\"", "\"bounding_box\"", "\"confidence\"",
     "\"structured_data\"", "\"key_value_pairs\"", "\"tables\"", "\"summary\""}

\* C27: for every combination of the flags the prompt has the braces and
\* every field name of the schema; a field has its placeholder (null for
\* language, bounding_box and summary, 0.0 for confidence, {} and [] for
\* key_value_pairs and tables) exactly when its flag is disabled, and is
\* never left out.
C27_PromptKeepsSchemaShape ==
    pc = "prompt" =>
       LET p == out.prompt
           c == ext.cfg
       IN  /\ "{" \in TokensOf(p)
           /\ "}" \in TokensOf(p)
           /\ SchemaFieldNames \subseteq TokensOf(p)
           /\ (ValueOf(p, "\"language\"") = "null,") <=> ~c.WithLanguageDetection
           /\ (ValueOf(p, "\"bounding_box\"") = "null,") <=> ~c.WithBoundingBoxes
           /\ (ValueOf(p, "\"confidence\"") = "0.0") <=> ~c.WithConfidenceScores
           /\ (ValueOf(p, "\"key_value_pairs\"") = "{},") <=> ~c.WithStructuredExtraction
           /\ (ValueOf(p, "\"tables\"") = "[]") <=> ~c.WithStructuredExtraction
           /\ (ValueOf(p, "\"summary\"") = "null") <=> ~c.WithSummary

\* The prompt was built with every flag disabled.
C27_Witness ==
    /\ pc = "prompt"
    /\ \A n \in FlagNames : ~ext.cfg[n]
    /\ Len(out.prompt) > 0

(***************************************************************************)
(* utils.ValidateOCRResult on its own: input is the pointer it is called   *)
(* with, out the error it returns.                                         *)
(***************************************************************************)
GoodLine == [Text |-> "alpha", BoundingBox |-> Nil, Confidence |-> 0]

\* The line lists tried: nil, empty, and lists with a line whose text is
\* empty or whose confidence is at or beyond an end of [0,1].
CandidateLines ==
    {Nil, Some(<<>>), Some(<<GoodLine>>),
     Some(<<GoodLine, [GoodLine EXCEPT !.Text = ""]>>),
     Some(<<[GoodLine EXCEPT !.Confidence = 10], [GoodLine EXCEPT !.Confidence = 11]>>),
     Some(<<[GoodLine EXCEPT !.Confidence = -1]>>)}

CandidateResults ==
    {Nil} \cup
    {Some([Source |-> [Type |-> ty, Path |-> pa, Checksum |-> ch],
           Image |-> [Width |-> 4, Height |-> 3, DPI |-> Nil, ColorMode |-> cm],
           Metadata |-> [Language |-> Nil, DocumentType |-> dt, ConfidenceScore |-> cs],
           Text |-> [Raw |-> "alpha", Lines |-> ls],
           StructuredData |-> [KeyValuePairs |-> kv, Tables |-> tb],
           Summary |-> Nil]) :
        ty \in {"file", "url", "ftp"}, pa \in {<<"/docs/scan", ".png">>, EmptySource},
        ch \in {"sha256(PNG)", ""}, cm \in {"RGB", "sepia"}, dt \in {"invoice", "memo"},
        cs \in {-1, 0, 10, 11}, ls \in CandidateLines,
        kv \in {Nil, Some(<<>>)}, tb \in {Nil, Some(<<>>)}}

ValidInit ==
    /\ pc = "validate"
    /\ input \in CandidateResults
    /\ ctx = "live"
    /\ now = 0
    /\ ext = NoExt
    /\ eng = NoEng
    /\ net = [downloads |-> 0, pings |-> <<>>, gens |-> <<>>]
    /\ out = [err |-> Nil]

Validate ==
    /\ pc = "validate"
    /\ pc' = "validated"
    /\ out' = [err |-> ValidateOCRResult(input)]
    /\ UNCHANGED <<input, ctx, now, ext, eng, net>>

ValidNext == Validate

ValidSpec == ValidInit /\ [][ValidNext]_vars

\* What the strict schema asks of a result.
ConformsToSchema(result) ==
    /\ result # Nil
    /\ LET r == Deref(result)
           ls == Elems(r.Text.Lines)
       IN  /\ r.Source.Type \in {"file", "url"}
           /\ r.Source.Path # <<>>
           /\ r.Source.Checksum # ""
           /\ r.Metadata.DocumentType \in
                 {"invoice", "receipt", "id_card", "contract", "unknown"}
           /\ r.Image.ColorMode \in {"RGB", "Grayscale", "CMYK", "Unknown"}
           /\ r.Metadata.ConfidenceScore \in 0..10
           /\ \A i \in 1..Len(ls) : ls[i].Confidence \in 0..10 /\ ls[i].Text # ""
           /\ r.StructuredData.KeyValuePairs # Nil
           /\ r.StructuredData.Tables # Nil

\* C24: ValidateOCRResult returns no error exactly when the result is
\* non-nil and conforms to the schema: source type file or url, path and
\* checksum non-empty, document type and color mode enumerated, every
\* confidence in [0,1], every line's text non-empty, key_value_pairs and
\* tables non-nil.
C24_ValidationExact ==
    pc = "validated" => (IsNil(out.err) <=> ConformsToSchema(input))

\* A result that conforms but for a line confidence below 0 was rejected.
C24_Witness ==
    /\ pc = "validated"
    /\ ~IsNil(out.err)
    /\ input # Nil
    /\ ConformsToSchema(Some([Deref(input) EXCEPT !.Text.Lines = Some(<<GoodLine>>)]))
    /\ Deref(input).Text.Lines = Some(<<[GoodLine EXCEPT !.Confidence = -1]>>)

(***************************************************************************)
(* utils.CleanJSONResponse on its own: input is a reply text, out the      *)
(* cleaned texts: of the reply, of the cleaned reply, and of the reply     *)
(* wrapped in a markdown json fence.                                       *)
(***************************************************************************)
MaxChunks == 3

\* The pieces reply texts are put together from: the fence markers, an
\* object, single braces, prose and white space.
Chunks ==
    {Fence, FenceJSON, <<"{", "a", "}">>, <<"{">>, <<"}">>, <<"a">>, <<" ">>, <<"\n">>}

RECURSIVE Flatten(_)
Flatten(cs) == IF cs = <<>> THEN <<>> ELSE Head(cs) \o Flatten(Tail(cs))

CleanInputs == {Flatten(cs) : cs \in UNION {[1..k -> Chunks] : k \in 0..MaxChunks}}

\* The reply between the lines of a markdown json fence.
InJSONFence(r) == FenceJSON \o <<"\n">> \o r \o <<"\n">> \o Fence

CleanInit ==
    /\ pc = "clean"
    /\ input \in CleanInputs
    /\ ctx = "live"
    /\ now = 0
    /\ ext = NoExt
    /\ eng = NoEng
    /\ net = [downloads |-> 0, pings |-> <<>>, gens |-> <<>>]
    /\ out = [plain |-> <<>>, twice |-> <<>>, fenced |-> <<>>]

CleanReply ==
    /\ pc = "clean"
    /\ pc' = "cleaned"
    /\ out' = [out EXCEPT !.plain = CleanJSONResponse(input)]
    /\ UNCHANGED <<input, ctx, now, ext, eng, net>>

CleanAgain ==
    /\ pc = "cleaned"
    /\ pc' = "recleaned"
    /\ out' = [out EXCEPT !.twice = CleanJSONResponse(out.plain)]
    /\ UNCHANGED <<input, ctx, now, ext, eng, net>>

CleanFenced ==
    /\ pc = "recleaned"
    /\ pc' = "done"
    /\ out' = [out EXCEPT !.fenced = CleanJSONResponse(InJSONFence(input))]
    /\ UNCHANGED <<input, ctx, now, ext, eng, net>>

CleanNext ==
    \/ CleanReply
    \/ CleanAgain
    \/ CleanFenced

CleanSpec == CleanInit /\ [][CleanNext]_vars

\* The text has a { with a } after it.
HasObject(s) == \E i, j \in 1..Len(s) : i < j /\ s[i] = "{" /\ s[j] = "}"

\* The text is an object text: from a { to a }.
IsObjectText(s) == Len(s) >= 2 /\ s[1] = "{" /\ s[Len(s)] = "}"

\* The text starts or ends with a fence marker.
FenceAtEnds(s) ==
    \/ Len(s) >= 3 /\ SubSeq(s, 1, 3) = <<"'", "'", "'">>
    \/ Len(s) >= 3 /\ SubSeq(s, Len(s) - 2, Len(s)) = <<"'", "'", "'">>

RECURSIVE WithoutOuterSpace(_)
WithoutOuterSpace(s) ==
    IF s = <<>> THEN s
    ELSE IF s[1] \in {" ", "\n", "\t", "\r"} THEN WithoutOuterSpace(Tail(s))
    ELSE IF s[Len(s)] \in {" ", "\n", "\t", "\r"}
         THEN WithoutOuterSpace(SubSeq(s, 1, Len(s) - 1))
    ELSE s

\* C25 as stated: for every reply text, cleaning the reply in a json fence
\* gives the same text as cleaning the reply, and both give the reply itself
\* when it is an object text.
C25_FenceRoundTripEveryReply ==
    pc = "done" =>
       /\ out.fenced = out.plain
       /\ IsObjectText(input) => out.plain = input

\* C25: for every reply text that has a { with a } after it, and for every
\* reply text that, white space at its ends apart, neither starts nor ends
\* with a fence marker, cleaning the reply in a json fence gives the same
\* text as cleaning the reply; both give the reply itself when it is an
\* object text.
C25_FenceRoundTrip ==
    pc = "done" =>
       /\ (HasObject(input) \/ ~FenceAtEnds(WithoutOuterSpace(input))) =>
             out.fenced = out.plain
       /\ IsObjectText(input) => out.plain = input /\ out.fenced = input

\* Prose before an object: both cleanings give the object, not the reply.
C25_Witness ==
    /\ pc = "done"
    /\ input = <<"a", "\n", "{", "a", "}">>
    /\ out.plain = <<"{", "a", "}">>
    /\ out.fenced = <<"{", "a", "}">>

\* C30 as stated: for every reply text a second cleaning pass gives the text
\* of the first.
C30_IdempotentEveryReply ==
    pc \in {"recleaned", "done"} => out.twice = out.plain

\* C30: a second cleaning pass gives the text of the first for every reply
\* text that has a { with a } after it, and for every other reply text whose
\* cleaned text neither starts nor ends with a fence marker.
C30_Idempotent ==
    (pc \in {"recleaned", "done"} /\ (HasObject(input) \/ ~FenceAtEnds(out.plain)))
       => out.twice = out.plain

\* A reply without an object, in a fence with white space inside, was
\* cleaned twice.
C30_Witness ==
    /\ pc = "recleaned"
    /\ input = <<"'", "'", "'", "\n", "a">>
    /\ out.plain = <<"a">>
    /\ out.twice = <<"a">>

(***************************************************************************)
(* Several Extract calls on goroutines of one process. Each call reads the *)
(* clock once, for its request ID; the clock moves on its own, so two      *)
(* reads may or may not see the same nanosecond. Here pc and out are       *)
(* per call: where the call is, and the request ID it carries.             *)
(***************************************************************************)
MaxCalls == 3
MaxClock == 3

Calls == 1..MaxCalls

ConcInit ==
    /\ pc = [c \in Calls |-> "idle"]
    /\ input = [c \in Calls |-> EmptySource]
    /\ ctx = "live"
    /\ now = 0
    /\ ext = NoExt
    /\ eng = NoEng
    /\ net = [downloads |-> 0, pings |-> <<>>, gens |-> <<>>]
    /\ out = [c \in Calls |-> [requestID |-> "", err |-> Nil]]

\* time passes
ClockTick ==
    /\ now < MaxClock
    /\ now' = now + 1
    /\ UNCHANGED <<pc, input, ctx, ext, eng, net, out>>

\* requestID := generateRequestID()
CallBegin(c) ==
    /\ pc[c] = "idle"
    /\ pc' = [pc EXCEPT ![c] = "started"]
    /\ out' = [out EXCEPT ![c].requestID = generateRequestID(now)]
    /\ UNCHANGED <<input, ctx, now, ext, eng, net>>

\* The call returns its error for the empty source, which carries the ID.
CallReturn(c) ==
    /\ pc[c] = "started"
    /\ pc' = [pc EXCEPT ![c] = "done"]
    /\ out' = [out EXCEPT ![c].err =
                  Some(NewOCRError("Extract", out[c].requestID, Sentinel("ErrEmptySource")))]
    /\ UNCHANGED <<input, ctx, now, ext, eng, net>>

ConcNext ==
    \/ ClockTick
    \/ \E c \in Calls : CallBegin(c)
    \/ \E c \in Calls : CallReturn(c)

ConcSpec == ConcInit /\ [][ConcNext]_vars

\* C26: any two calls that have their request IDs have different ones, and
\* so have the errors they return.
C26_RequestIDUnique ==
    \A c, d \in Calls :
       (c # d /\ pc[c] # "idle" /\ pc[d] # "idle") =>
          out[c].requestID # out[d].requestID

====
